---- MODULE Spec2Model ----
(***************************************************************************)
(* Model of build.mjs (AniList character dictionary generator): the        *)
(* JMnedict lexicon index, the CJK classifier, the surname/given-name      *)
(* segmentation and the alias derivation.                                  *)
(*                                                                         *)
(* A string is a sequence of characters; a character is one of the tokens  *)
(* below, each standing for a class of code points the regular expressions *)
(* of the source distinguish.                                              *)
(***************************************************************************)
EXTENDS Integers, Sequences, FiniteSets, TLC

VARIABLES
  pc,           \* where the run is: the phase of main, or of the call in progress
  error,        \* the message of the exception that ended the run, "" if none
  jm,           \* the lexicon index handed to makeAliases: null or {surnames, givennames}
  surnames,     \* loadJmnedictSets: the set of surnames built so far
  givennames,   \* loadJmnedictSets: the set of given names built so far
  remaining,    \* loadJmnedictSets: number of words of root.words not yet visited
  lastWord,     \* loadJmnedictSets: the word visited by the last iteration, if any
  records,      \* loadJmnedictSets: number of records the parsed source holds
  inEntry,      \* loadJmnedictSets, XML revision: the parser is inside an <entry>
  kebs,         \* loadJmnedictSets, XML revision: the <keb> texts of the entry
  nameTypes,    \* loadJmnedictSets, XML revision: the <name_type> texts of the entry
  segName,      \* bestSplitWithJmnedict: the argument of the last call
  segOut,       \* bestSplitWithJmnedict: the outcome of the last call
  nameNative,   \* makeAliases: the first argument, as passed
  nameFull,     \* makeAliases: the second argument, as passed
  aliases,      \* makeAliases: the set of aliases built so far
  stepAdds,     \* makeAliases: what each step taken so far passed to aliases.add
  splitCalls,   \* makeAliases: calls of bestSplitWithJmnedict made by this call
  callArg,      \* a function called on its own: the argument of the call
  callOut,      \* a function called on its own: what the call returned
  attempt,      \* gql: the loop counter
  requests,     \* gql: number of requests sent by the call so far
  response,     \* gql: the response to the last request, if any
  waitMs,       \* gql: the delay of the sleep in progress, 0 if none
  titles,       \* main: the titles used, in order
  cursor,       \* main: the index in titles of the next title to process
  includeDesc,  \* main: INCLUDE_DESC
  charMap,      \* main: characterId -> data
  fetched       \* main: what fetchCharactersForMedia returned, title by title

vars == <<pc, error, jm, surnames, givennames, remaining, lastWord, records,
          inEntry, kebs, nameTypes, segName, segOut,
          nameNative, nameFull, aliases, stepAdds, splitCalls,
          callArg, callOut, attempt, requests, response, waitMs,
          titles, cursor, includeDesc, charMap, fetched>>

xmlVars == <<inEntry, kebs, nameTypes>>
loadVars == <<surnames, givennames, remaining, lastWord, records, xmlVars>>
segVars == <<segName, segOut>>
aliasVars == <<nameNative, nameFull, aliases, stepAdds, splitCalls>>
callVars == <<callArg, callOut>>
gqlVars == <<attempt, requests, response, waitMs>>
charVars == <<titles, cursor, includeDesc, charMap, fetched>>
restVars == <<callVars, gqlVars, charVars>>

(***************************************************************************)
(* Characters.                                                             *)
(***************************************************************************)
\* ideographs matched by [U+3400-U+4DBF, U+4E00-U+9FFF, U+3005]
CjkChars == {"k1", "k2"}
\* characters matched by \s (and removed by String.prototype.trim): a space
\* and a line feed
WhiteChars == {"sp", "nl"}
\* U+30FB, the katakana middle dot
MiddleDot == "dot"
\* the separators of splitParts: \s, U+30FB, "=", U+FF1D, U+00B7, U+2022
SeparatorChars == WhiteChars \cup {MiddleDot, "eq"}
\* a kana character, an upper-case and a lower-case Latin letter, a digit
OtherChars == {"ka", "A", "a", "n1"}

Chars == CjkChars \cup SeparatorChars \cup OtherChars

\* the string made of n copies of character c
RECURSIVE Rep(_, _)
Rep(c, n) == IF n <= 0 THEN <<>> ELSE <<c>> \o Rep(c, n - 1)

(***************************************************************************)
(* String helpers of the JavaScript runtime, as the source uses them.      *)
(***************************************************************************)
RECURSIVE TrimStart(_)
TrimStart(s) ==
  IF s # <<>> /\ Head(s) \in WhiteChars THEN TrimStart(Tail(s)) ELSE s

RECURSIVE TrimEnd(_)
TrimEnd(s) ==
  IF s # <<>> /\ s[Len(s)] \in WhiteChars
  THEN TrimEnd(SubSeq(s, 1, Len(s) - 1))
  ELSE s

\* String.prototype.trim
Trim(s) == TrimEnd(TrimStart(s))

\* s.replace(/[set]+/g, ""): every character of the set is deleted
RemoveChars(s, set) == SelectSeq(s, LAMBDA c : c \notin set)

ToLowerChar(c) == IF c = "A" THEN "a" ELSE c

\* String.prototype.toLowerCase
ToLowerCase(s) == [i \in 1..Len(s) |-> ToLowerChar(s[i])]

\* isAllCjk: /^[CJK]+$/.test(String(s || "").trim())
IsAllCjkEmptyOk(s) ==
  LET t == Trim(s)
  IN  \A i \in 1..Len(t) : t[i] \in CjkChars

IsAllCjk(s) ==
  LET t == Trim(s)
  IN  Len(t) >= 1 /\ \A i \in 1..Len(t) : t[i] \in CjkChars

(***************************************************************************)
(* bestSplitWithJmnedict.  An optional value is a sequence of length 0     *)
(* (null) or 1.                                                            *)
(***************************************************************************)
Null == <<>>
Some(x) == <<x>>

\* if (n < 2 || n > 8) return null
MinNameLen == 2
MaxNameLen == 8

LengthRejectedLoose(n) == n < MinNameLen \/ n > MaxNameLen + 1
LengthRejected(n) == n < MinNameLen \/ n > MaxNameLen

\* chars.slice(0, cut).join("")
SurnamePart(chars, cut) == SubSeq(chars, 1, cut)

\* chars.slice(cut).join("")
GivenPartShort(chars, cut) == SubSeq(chars, cut + 2, Len(chars))
GivenPart(chars, cut) == SubSeq(chars, cut + 1, Len(chars))

Min(a, b) == IF a <= b THEN a ELSE b

\* score = 100; +15 if cut === 2; +8 if cut === 3; + min(5, |sur|) + min(5, |giv|)
ScoreSwapped(cut, sur, giv) ==
  100 + (IF cut = 2 THEN 8 ELSE 0) + (IF cut = 3 THEN 15 ELSE 0)
      + Min(5, Len(sur)) + Min(5, Len(giv))
ScoreNoLength(cut, sur, giv) ==
  100 + (IF cut = 2 THEN 15 ELSE 0) + (IF cut = 3 THEN 8 ELSE 0)
Score(cut, sur, giv) ==
  100 + (IF cut = 2 THEN 15 ELSE 0) + (IF cut = 3 THEN 8 ELSE 0)
      + Min(5, Len(sur)) + Min(5, Len(giv))

\* if (!best || score > best.score) best = ...
ReplacesOnTie(best, score) == best = Null \/ score >= best[1].score
Replaces(best, score) == best = Null \/ score > best[1].score

\* jm.surnames.has(sur) and jm.givennames.has(giv)
HasSurnameAny(lex, sur) == TRUE
HasSurname(lex, sur) == sur \in lex.surnames
HasGiven(lex, giv) == giv \in lex.givennames

\* the for loop over cut = 1 .. n-1; acc carries best, the number of
\* Set.has calls made and the successive values of best
RECURSIVE ScanCuts(_, _, _, _)
ScanCuts(chars, lex, cut, acc) ==
  IF cut > Len(chars) - 1 THEN acc
  ELSE
    LET sur == SurnamePart(chars, cut)
        giv == GivenPart(chars, cut)
    IN  IF ~HasSurname(lex, sur)
        THEN ScanCuts(chars, lex, cut + 1,
                      [acc EXCEPT !.lookups = @ + 1])
        ELSE IF ~HasGiven(lex, giv)
        THEN ScanCuts(chars, lex, cut + 1,
                      [acc EXCEPT !.lookups = @ + 2])
        ELSE
          LET score == Score(cut, sur, giv)
              cand == [surname |-> sur, given |-> giv, score |-> score,
                       cut |-> cut]
          IN  IF Replaces(acc.best, score)
              THEN ScanCuts(chars, lex, cut + 1,
                            [best |-> Some(cand),
                             lookups |-> acc.lookups + 2,
                             history |-> Append(acc.history, cand)])
              ELSE ScanCuts(chars, lex, cut + 1,
                            [acc EXCEPT !.lookups = @ + 2])

\* the outcome of one call: the returned value, whether the call raised,
\* the number of lexicon lookups and the successive values of best
EarlyNull ==
  [result |-> Null, raised |-> FALSE, lookups |-> 0, history |-> <<>>]

\* const s = String(nativeKanji || "").trim()
SegInput(nativeKanji) == Trim(nativeKanji)

BestSplitWithJmnedict(nativeKanji, lexOpt) ==
  LET s == SegInput(nativeKanji)
  IN  IF s = <<>> \/ ~IsAllCjk(s) THEN EarlyNull
      ELSE IF LengthRejected(Len(s)) THEN EarlyNull
      \* jm.surnames on a null jm: TypeError at the first iteration
      ELSE IF lexOpt = Null
      THEN [result |-> Null, raised |-> TRUE, lookups |-> 0, history |-> <<>>]
      ELSE
        LET acc == ScanCuts(s, lexOpt[1], 1,
                     [best |-> Null, lookups |-> 0, history |-> <<>>])
        IN  [result |-> IF acc.best = Null THEN Null
                        ELSE Some([surname |-> acc.best[1].surname,
                                   given |-> acc.best[1].given]),
             raised |-> FALSE,
             lookups |-> acc.lookups,
             history |-> acc.history]

(***************************************************************************)
(* splitParts.                                                             *)
(***************************************************************************)
\* String.prototype.split on /[separators]+/: the pieces between maximal
\* runs of separators, empty pieces at either end included
RECURSIVE SplitOnSeparators(_, _, _)
SplitOnSeparators(s, cur, inRun) ==
  IF s = <<>> THEN <<cur>>
  ELSE IF Head(s) \in SeparatorChars
  THEN IF inRun THEN SplitOnSeparators(Tail(s), cur, TRUE)
       ELSE <<cur>> \o SplitOnSeparators(Tail(s), <<>>, TRUE)
  ELSE SplitOnSeparators(Tail(s), Append(cur, Head(s)), FALSE)

\* .split(...).map(x => x.trim()).filter(Boolean)
SplitParts(s) ==
  LET pieces == SplitOnSeparators(s, <<>>, FALSE)
      trimmed == [i \in 1..Len(pieces) |-> Trim(pieces[i])]
  IN  SelectSeq(trimmed, LAMBDA x : x # <<>>)

(***************************************************************************)
(* makeAliases: the values each step passes to add, in order.              *)
(***************************************************************************)
\* const add = (s) => { if (!s) return; const t = String(s).trim(); if (t) aliases.add(t); }
AddUnchecked(al, s) == al \cup {s}
Add(al, s) ==
  IF s = <<>> THEN al
  ELSE LET t == Trim(s) IN IF t # <<>> THEN al \cup {t} ELSE al

RECURSIVE AddAll(_, _)
AddAll(al, values) ==
  IF values = <<>> THEN al ELSE AddAll(Add(al, Head(values)), Tail(values))

\* const native = String(nameNative || "").trim(); same for full
NativeOf(passed) == Trim(passed)
FullOf(passed) == Trim(passed)

\* add(native); add(full)
OriginalsNativeOnly(native, full) == <<native>>
Originals(native, full) == <<native, full>>

\* if (native) { add(native.replace(/\s+/g, "")); add(native.replace(/[\s\u30fb]+/g, "")) }
\* if (full) add(full.toLowerCase())
Normalizations(native, full) ==
  (IF native # <<>>
   THEN <<RemoveChars(native, WhiteChars),
          RemoveChars(native, WhiteChars \cup {MiddleDot})>>
   ELSE <<>>)
  \o (IF full # <<>> THEN <<ToLowerCase(full)>> ELSE <<>>)

\* for (const p of nativeParts) add(p)
NativePartsLongOnly(parts) == SelectSeq(parts, LAMBDA x : Len(x) >= 2)
NativePartsToAdd(parts) == parts

\* else if (jm && native && isAllCjk(native))
Segments(lexOpt, native) ==
  lexOpt # Null /\ native # <<>> /\ IsAllCjk(native)

\* if (sp) { add(sp.surname); add(sp.given) }
SplitToAdd(out) ==
  IF out.result = Null THEN <<>>
  ELSE <<out.result[1].surname, out.result[1].given>>

\* for (const p of fullParts) { add(p); add(p.toLowerCase()) }
RECURSIVE PartsWithLowerCase(_)
PartsWithLowerCase(parts) ==
  IF parts = <<>> THEN <<>>
  ELSE <<Head(parts), ToLowerCase(Head(parts))>>
         \o PartsWithLowerCase(Tail(parts))

FullPartsToAdd(full) ==
  LET parts == SplitParts(full)
  IN  IF Len(parts) >= 2 THEN PartsWithLowerCase(parts) ELSE <<>>

(***************************************************************************)
(* loadJmnedictSets: one word of root.words.  A word is                    *)
(* [kanji : optional sequence of written forms,                            *)
(*  translation : optional set of the entries of translation[].type[]].    *)
(***************************************************************************)
\* a type entry that is not a string
NonStringType == "nonstring"

AllTypes ==
  {"surname", "family", "given", "person", "fem", "masc", "place",
   NonStringType}

IsSurnameType(t) == t = "surname" \/ t = "family"
IsGivenTypeNoMasc(t) == t = "given" \/ t = "person" \/ t = "fem"
IsGivenType(t) == t = "given" \/ t = "person" \/ t = "fem" \/ t = "masc"

\* const kanjiArr = Array.isArray(w?.kanji) ? w.kanji : []
KanjiArr(w) == IF w.kanji = Null THEN <<>> ELSE w.kanji[1]

\* for (const x of ty) if (typeof x === "string") types.add(x)
TypesOf(w) ==
  IF w.translation = Null THEN {}
  ELSE {x \in w.translation[1] : x # NonStringType}

\* if (!txt || !isAllCjk(txt)) continue
KeepsAnyForm(txt) == txt # <<>>
KeepsForm(txt) == txt # <<>> /\ IsAllCjk(txt)

\* const txt = String(k?.text || "").trim(), for every k of kanjiArr
KeptForms(kanjiArr) ==
  {Trim(kanjiArr[i]) : i \in {j \in 1..Len(kanjiArr) : KeepsForm(Trim(kanjiArr[j]))}}

(***************************************************************************)
(* loadJmnedictSets, XML revision: the decision taken at </entry>.         *)
(***************************************************************************)
XmlIsSurname(types) == "surname" \in types \/ "family" \in types

XmlIsGiven(types) ==
  "given" \in types \/ "person" \in types \/ "fem" \in types
    \/ "masc" \in types

\* if (!k || !isAllCjk(k)) continue
XmlKeepsKeb(k) == k # <<>> /\ IsAllCjk(k)

XmlKeptKebs(list) ==
  {list[i] : i \in {j \in 1..Len(list) : XmlKeepsKeb(list[j])}}

(***************************************************************************)
(* Bounds and input pools.                                                 *)
(***************************************************************************)
\* longest name passed to bestSplitWithJmnedict, before padding
MaxInputLen == 9
\* number of entries of a lexicon, surnames and given names together
MaxLexSize == 4

\* written forms a lexicon may hold: all-CJK, trimmed, non-empty
LexForms ==
  {Rep("k1", n) : n \in 1..(MaxNameLen - 1)} \cup {<<"k2">>, <<"k1", "k2">>}

Lexicons ==
  {[surnames |-> S, givennames |-> G] :
     <<S, G>> \in {p \in (SUBSET LexForms) \X (SUBSET LexForms) :
                     Cardinality(p[1]) + Cardinality(p[2]) <= MaxLexSize}}

SegCores ==
  {Rep("k1", n) : n \in 0..MaxInputLen}
    \cup {<<"k1", "k2">>, <<"k2", "k1">>, <<"k1", "k1", "k2">>,
          <<"k1", "k2", "k2">>, <<"k1", "k2", "k1", "k1">>}
    \cup {<<"a">>, <<"k1", "a">>, <<"ka", "k1">>, <<"k1", "sp", "k2">>,
          <<"k1", "dot", "k2">>}

Pads == {<<>>, <<"sp">>}

SegNames == {l \o c \o r : l \in Pads, c \in SegCores, r \in Pads}

\* no function is being called on its own
NoCall == <<>>

GqlIdle == attempt = 0 /\ requests = 0 /\ response = <<>> /\ waitMs = 0

\* new Map()
EmptyMap == [k \in {} |-> {}]

CharsIdle ==
  /\ titles = <<>> /\ cursor = 0 /\ includeDesc = FALSE
  /\ charMap = EmptyMap /\ fetched = <<>>

RestIdle == callArg = NoCall /\ callOut = NoCall /\ GqlIdle /\ CharsIdle

(***************************************************************************)
(* Specification of the segmentation engine as a function of its           *)
(* arguments: any lexicon (or none), any name.                             *)
(***************************************************************************)
NoOut == [result |-> Null, raised |-> FALSE, lookups |-> 0, history |-> <<>>]

InitSeg ==
  /\ pc = "idle"
  /\ jm \in {Some(l) : l \in Lexicons} \cup {Null}
  /\ segName = <<>>
  /\ segOut = NoOut
  /\ surnames = {} /\ givennames = {} /\ remaining = 0 /\ lastWord = Null
  /\ records = 0
  /\ inEntry = FALSE /\ kebs = <<>> /\ nameTypes = {}
  /\ error = ""
  /\ nameNative = <<>> /\ nameFull = <<>>
  /\ aliases = {} /\ stepAdds = <<>> /\ splitCalls = 0
  /\ RestIdle

Segment(name) ==
  /\ pc = "idle"
  /\ pc' = "returned"
  /\ segName' = name
  /\ segOut' = BestSplitWithJmnedict(name, jm)
  /\ UNCHANGED <<restVars, error, jm, loadVars, aliasVars>>

SegmentDone ==
  /\ pc = "returned"
  /\ pc' = "idle"
  /\ segName' = <<>>
  /\ segOut' = NoOut
  /\ UNCHANGED <<restVars, error, jm, loadVars, aliasVars>>

NextSeg ==
  \/ \E name \in SegNames : Segment(name)
  \/ SegmentDone

SpecSeg == InitSeg /\ [][NextSeg]_vars

(***************************************************************************)
(* Input pools of the run of main.                                         *)
(***************************************************************************)
\* largest number of words of the JMnedict file
MaxWords == 2

WordForms ==
  {<<"k1">>, <<"k2">>, <<"k1", "k2">>, <<"sp", "k1", "sp">>, <<"k1", "a">>,
   <<"k1", "sp", "k2">>, <<>>}

KanjiLists ==
  {Null, Some(<<>>)}
    \cup {Some(<<f>>) : f \in WordForms}
    \cup {Some(<< <<"k1">>, <<"k1", "a">> >>),
          Some(<< <<"sp", "k1", "sp">>, <<"k2">> >>)}

TypeLists ==
  {Null, Some({}), Some({"surname", "given"}), Some({"place", "fem"}),
   Some({NonStringType, "family"})}
    \cup {Some({t}) : t \in AllTypes}

Words == [kanji : KanjiLists, translation : TypeLists]

\* XML revision: most <keb> and <name_type> elements read in one <entry>
MaxKebs == 2
MaxNameTypes == 2

\* XML revision: the text of a <keb> element
XmlKebTexts == {<<"k1">>, <<"sp", "k2">>, <<"k1", "a">>, <<>>}

\* XML revision: the trimmed text of a <name_type> element
XmlTypeTexts == (AllTypes \ {NonStringType}) \cup {""}

NativeNames ==
  {<<>>, <<"k1", "k2">>, <<"k1", "k1", "k2">>, <<"k1", "k2", "k2">>,
   <<"sp", "k1", "k2">>, <<"k1", "sp", "k2">>, <<"k1", "k2", "sp", "k2">>,
   <<"k1", "dot", "k2">>, <<"k1", "sp", "dot", "k2", "k1">>,
   <<"k1", "eq", "k2">>, <<"ka", "k1">>, <<"dot">>, <<"k1", "dot">>,
   <<"sp">>}

FullNames ==
  {<<>>, <<"A", "a">>, <<"a">>, <<"A", "a", "sp", "A">>, <<"A", "eq", "a", "sp">>,
   <<"k1", "k2">>}

(***************************************************************************)
(* The run of main: the lexicon index is built (or not used), then         *)
(* makeAliases is called for one character after another.                  *)
(***************************************************************************)
Init ==
  /\ pc = "start"
  /\ jm = Null
  /\ surnames = {} /\ givennames = {} /\ remaining = 0 /\ lastWord = Null
  /\ records = 0
  /\ inEntry = FALSE /\ kebs = <<>> /\ nameTypes = {}
  /\ error = ""
  /\ segName = <<>> /\ segOut = NoOut
  /\ nameNative = <<>> /\ nameFull = <<>>
  /\ aliases = {} /\ stepAdds = <<>> /\ splitCalls = 0
  /\ RestIdle

\* if (!userName) throw new Error("Missing ANILIST_USER")
MissingUser ==
  /\ pc = "start"
  /\ pc' = "failed"
  /\ error' = "Missing ANILIST_USER"
  /\ UNCHANGED <<restVars, jm, loadVars, segVars, aliasVars>>

\* USE_JMNEDICT is not "true": jm stays null
SkipLexicon ==
  /\ pc = "start"
  /\ pc' = "fetch"
  /\ UNCHANGED <<restVars, error, jm, loadVars, segVars, aliasVars>>

\* loadJmnedictSets throws: the GitHub API or the download fails, no asset
\* matches, or JSON.parse fails
LoadFails ==
  /\ pc = "start"
  /\ pc' = "failed"
  /\ error' \in {"GitHub API failed", "Could not find a JMnedict asset",
                 "JMnedict asset download failed", "Failed to parse JMnedict JSON"}
  /\ UNCHANGED <<restVars, jm, loadVars, segVars, aliasVars>>

\* root.words is missing, not an array or empty: loadJmnedictSets throws
LoadNoWords ==
  /\ pc = "start"
  /\ pc' = "failed"
  /\ error' = "JMnedict JSON has no words[]"
  /\ UNCHANGED <<restVars, jm, loadVars, segVars, aliasVars>>

\* root.words holds n >= 1 words; the two sets start empty
LoadBegin(n) ==
  /\ pc = "start"
  /\ n >= 1
  /\ pc' = "load"
  /\ records' = n
  /\ remaining' = n
  /\ surnames' = {}
  /\ givennames' = {}
  /\ lastWord' = Null
  /\ UNCHANGED <<restVars, error, jm, xmlVars, segVars, aliasVars>>

\* one iteration of for (const w of words)
LoadWord(w) ==
  /\ pc = "load"
  /\ remaining > 0
  /\ LET types == TypesOf(w)
         surname == \E t \in types : IsSurnameType(t)
         given == \E t \in types : IsGivenType(t)
         kept == KeptForms(KanjiArr(w))
     IN  /\ surnames' = IF surname THEN surnames \cup kept ELSE surnames
         /\ givennames' = IF given THEN givennames \cup kept ELSE givennames
  /\ remaining' = remaining - 1
  /\ lastWord' = Some(w)
  /\ UNCHANGED <<restVars, error, pc, jm, records, xmlVars, segVars, aliasVars>>

\* return { surnames, givennames }; jm = await loadJmnedictSets()
LoadReturnEarly ==
  /\ pc = "load"
  /\ jm' = Some([surnames |-> surnames, givennames |-> givennames])
  /\ pc' = "fetch"
  /\ lastWord' = Null
  /\ UNCHANGED <<restVars, error, surnames, givennames, remaining, records, xmlVars,
                 segVars, aliasVars>>

LoadReturn ==
  /\ pc = "load"
  /\ remaining = 0
  /\ jm' = Some([surnames |-> surnames, givennames |-> givennames])
  /\ pc' = "fetch"
  /\ lastWord' = Null
  /\ UNCHANGED <<restVars, error, surnames, givennames, remaining, records, xmlVars,
                 segVars, aliasVars>>

\* XML revision: the file is downloaded and unzipped, the parser is created;
\* the document holds n <entry> elements
XmlBegin(n) ==
  /\ pc = "start"
  /\ pc' = "xml"
  /\ records' = n
  /\ remaining' = n
  /\ surnames' = {}
  /\ givennames' = {}
  /\ inEntry' = FALSE
  /\ kebs' = <<>>
  /\ nameTypes' = {}
  /\ UNCHANGED <<restVars, error, jm, lastWord, segVars, aliasVars>>

\* XML revision: the download fails, or gunzipSync or the parser throws
XmlFails ==
  /\ pc \in {"start", "xml"}
  /\ pc' = "failed"
  /\ error' = IF pc = "start" THEN "JMnedict download failed"
              ELSE "XML parse error"
  \* the locals of loadJmnedictSets are gone with the exception
  /\ surnames' = {}
  /\ givennames' = {}
  /\ remaining' = 0
  /\ inEntry' = FALSE
  /\ kebs' = <<>>
  /\ nameTypes' = {}
  /\ UNCHANGED <<restVars, jm, lastWord, records, segVars, aliasVars>>

\* XML revision, opentag handler on <entry>
XmlOpenEntry ==
  /\ pc = "xml"
  /\ remaining > 0
  /\ remaining' = remaining - 1
  /\ inEntry' = TRUE
  /\ kebs' = <<>>
  /\ nameTypes' = {}
  /\ UNCHANGED <<restVars, error, pc, jm, surnames, givennames, lastWord, records,
                 segVars, aliasVars>>

\* XML revision, closetag handler on </keb>; text is what the text and
\* cdata handlers gathered since the last tag
XmlCloseKeb(text) ==
  /\ pc = "xml"
  /\ Len(kebs) < MaxKebs
  /\ kebs' = IF inEntry /\ Trim(text) # <<>>
              THEN Append(kebs, Trim(text)) ELSE kebs
  /\ UNCHANGED <<restVars, error, pc, jm, surnames, givennames, remaining, lastWord,
                 records, inEntry, nameTypes, segVars, aliasVars>>

\* XML revision, closetag handler on </name_type>; val is the trimmed text
XmlCloseNameType(val) ==
  /\ pc = "xml"
  /\ Cardinality(nameTypes) < MaxNameTypes
  /\ nameTypes' = IF inEntry /\ val # "" THEN nameTypes \cup {val}
                   ELSE nameTypes
  /\ UNCHANGED <<restVars, error, pc, jm, surnames, givennames, remaining, lastWord,
                 records, inEntry, kebs, segVars, aliasVars>>

\* XML revision, closetag handler on </entry>
XmlCloseEntry ==
  /\ pc = "xml"
  /\ inEntry
  /\ LET isSurname == XmlIsSurname(nameTypes)
         isGiven == XmlIsGiven(nameTypes)
         kept == XmlKeptKebs(kebs)
     IN  /\ surnames' = IF isSurname THEN surnames \cup kept ELSE surnames
         /\ givennames' = IF isGiven THEN givennames \cup kept ELSE givennames
  /\ inEntry' = FALSE
  /\ kebs' = <<>>
  /\ nameTypes' = {}
  /\ UNCHANGED <<restVars, error, pc, jm, remaining, lastWord, records,
                 segVars, aliasVars>>

\* XML revision: parser.close() and return { surnames, givennames }
XmlReturn ==
  /\ pc = "xml"
  /\ remaining = 0
  /\ ~inEntry
  /\ jm' = Some([surnames |-> surnames, givennames |-> givennames])
  /\ pc' = "fetch"
  /\ UNCHANGED <<restVars, error, loadVars, segVars, aliasVars>>

\* fetchCurrentTitles or fetchCharactersForMedia throws (gql gives up or
\* reports an error), or no title is CURRENT
FetchFails ==
  /\ pc = "fetch"
  /\ pc' = "failed"
  /\ error' \in {"Too many rate-limit retries", "GraphQL error",
                 "No CURRENT entries found"}
  /\ UNCHANGED <<restVars, jm, loadVars, segVars, aliasVars>>

\* the titles and their characters are fetched: charMap is complete
FetchDone ==
  /\ pc = "fetch"
  /\ pc' = "ready"
  /\ UNCHANGED <<restVars, error, jm, loadVars, segVars, aliasVars>>

\* every character of charMap was handled: dictionary.export(outDir)
Export ==
  /\ pc = "ready"
  /\ pc' = "exported"
  /\ UNCHANGED <<restVars, error, jm, loadVars, segVars, aliasVars>>

\* makeAliases(it.nameNative, it.nameFull, jm) is entered
MakeAliasesEnter(passedNative, passedFull) ==
  /\ pc = "ready"
  /\ pc' = "originals"
  /\ nameNative' = passedNative
  /\ nameFull' = passedFull
  /\ aliases' = {}
  /\ stepAdds' = <<>>
  /\ splitCalls' = 0
  /\ UNCHANGED <<restVars, error, jm, loadVars, segVars>>

\* the step of makeAliases that passes the given values to add
AddStep(values, next) ==
  /\ aliases' = AddAll(aliases, values)
  /\ stepAdds' = Append(stepAdds, AddAll({}, values))
  /\ pc' = next

AddOriginals ==
  /\ pc = "originals"
  /\ AddStep(Originals(NativeOf(nameNative), FullOf(nameFull)), "normalize")
  /\ UNCHANGED <<restVars, error, jm, loadVars, segVars, nameNative, nameFull,
                 splitCalls>>

AddNormalizations ==
  /\ pc = "normalize"
  /\ AddStep(Normalizations(NativeOf(nameNative), FullOf(nameFull)), "split")
  /\ UNCHANGED <<restVars, error, jm, loadVars, segVars, nameNative, nameFull,
                 splitCalls>>

\* if (nativeParts.length >= 2)
AddNativeParts ==
  /\ pc = "split"
  /\ Len(SplitParts(NativeOf(nameNative))) >= 2
  /\ AddStep(NativePartsToAdd(SplitParts(NativeOf(nameNative))), "fullParts")
  /\ UNCHANGED <<restVars, error, jm, loadVars, segVars, nameNative, nameFull,
                 splitCalls>>

\* the same step, adding the name it could split to the index
SegmentNativeLearning ==
  /\ pc = "split"
  /\ Len(SplitParts(NativeOf(nameNative))) < 2
  /\ Segments(jm, NativeOf(nameNative))
  /\ LET out == BestSplitWithJmnedict(NativeOf(nameNative), jm)
     IN  /\ segName' = NativeOf(nameNative)
         /\ segOut' = out
         /\ AddStep(SplitToAdd(out), "fullParts")
  /\ splitCalls' = splitCalls + 1
  /\ jm' = IF BestSplitWithJmnedict(NativeOf(nameNative), jm).result = Null
           THEN jm
           ELSE Some([jm[1] EXCEPT !.surnames = @ \cup {NativeOf(nameNative)}])
  /\ UNCHANGED <<restVars, error, loadVars, nameNative, nameFull>>

\* else if (jm && native && isAllCjk(native))
SegmentNative ==
  /\ pc = "split"
  /\ Len(SplitParts(NativeOf(nameNative))) < 2
  /\ Segments(jm, NativeOf(nameNative))
  /\ LET out == BestSplitWithJmnedict(NativeOf(nameNative), jm)
     IN  /\ segName' = NativeOf(nameNative)
         /\ segOut' = out
         /\ AddStep(SplitToAdd(out), "fullParts")
  /\ splitCalls' = splitCalls + 1
  /\ UNCHANGED <<restVars, error, jm, loadVars, nameNative, nameFull>>

\* neither branch is taken
SkipNativeSplit ==
  /\ pc = "split"
  /\ Len(SplitParts(NativeOf(nameNative))) < 2
  /\ ~Segments(jm, NativeOf(nameNative))
  /\ AddStep(<<>>, "fullParts")
  /\ UNCHANGED <<restVars, error, jm, loadVars, segVars, nameNative, nameFull,
                 splitCalls>>

AddFullParts ==
  /\ pc = "fullParts"
  /\ AddStep(FullPartsToAdd(FullOf(nameFull)), "return")
  /\ UNCHANGED <<restVars, error, jm, loadVars, segVars, nameNative, nameFull,
                 splitCalls>>

\* return [...aliases]; main goes on to the next character
MakeAliasesReturn ==
  /\ pc = "return"
  /\ pc' = "ready"
  /\ nameNative' = <<>>
  /\ nameFull' = <<>>
  /\ aliases' = {}
  /\ stepAdds' = <<>>
  /\ splitCalls' = 0
  /\ segName' = <<>>
  /\ segOut' = NoOut
  /\ UNCHANGED <<restVars, error, jm, loadVars>>

Next ==
  \/ MissingUser
  \/ SkipLexicon
  \/ LoadFails
  \/ LoadNoWords
  \/ \E n \in 1..MaxWords : LoadBegin(n)
  \/ \E w \in Words : LoadWord(w)
  \/ LoadReturn
  \/ \E n \in 0..MaxWords : XmlBegin(n)
  \/ XmlFails
  \/ XmlOpenEntry
  \/ \E text \in XmlKebTexts : XmlCloseKeb(text)
  \/ \E val \in XmlTypeTexts : XmlCloseNameType(val)
  \/ XmlCloseEntry
  \/ XmlReturn
  \/ FetchFails
  \/ FetchDone
  \/ Export
  \/ \E n \in NativeNames, f \in FullNames : MakeAliasesEnter(n, f)
  \/ AddOriginals
  \/ AddNormalizations
  \/ AddNativeParts
  \/ SegmentNative
  \/ SkipNativeSplit
  \/ AddFullParts
  \/ MakeAliasesReturn

Spec == Init /\ [][Next]_vars

(***************************************************************************)
(* isAllCjk called on its own with any value: a string, null or undefined. *)
(***************************************************************************)
JsNull == [type |-> "null", chars |-> <<>>]
JsUndefined == [type |-> "undefined", chars |-> <<>>]
JsString(s) == [type |-> "string", chars |-> s]

\* String(v || ""): null, undefined and "" are falsy
StringOrEmpty(v) ==
  IF v.type = "string" /\ v.chars # <<>> THEN v.chars ELSE <<>>

IsAllCjkOf(v) == IsAllCjk(StringOrEmpty(v))

\* longest string passed to isAllCjk
MaxCjkLen == 3

StringsUpTo(n) == UNION {[1..k -> Chars] : k \in 0..n}

CjkArgs == {JsNull, JsUndefined} \cup {JsString(s) : s \in StringsUpTo(MaxCjkLen)}

\* the run of main has not started
MainIdle ==
  /\ jm = Null
  /\ surnames = {} /\ givennames = {} /\ remaining = 0 /\ lastWord = Null
  /\ records = 0
  /\ inEntry = FALSE /\ kebs = <<>> /\ nameTypes = {}
  /\ error = ""
  /\ segName = <<>> /\ segOut = NoOut
  /\ nameNative = <<>> /\ nameFull = <<>>
  /\ aliases = {} /\ stepAdds = <<>> /\ splitCalls = 0

mainVars == <<error, jm, loadVars, segVars, aliasVars>>

\* what a call of isAllCjk, stripSpoilers or htmlToText on its own leaves alone
exceptCall == <<mainVars, gqlVars, charVars>>

InitCjk == pc = "idle" /\ MainIdle /\ RestIdle

IsAllCjkCall(v) ==
  /\ pc = "idle"
  /\ pc' = "returned"
  /\ callArg' = v
  /\ callOut' = IsAllCjkOf(v)
  /\ UNCHANGED exceptCall

CallDone ==
  /\ pc \in {"returned", "renormalized"}
  /\ pc' = "idle"
  /\ callArg' = NoCall
  /\ callOut' = NoCall
  /\ UNCHANGED exceptCall

NextCjk ==
  \/ \E v \in CjkArgs : IsAllCjkCall(v)
  \/ CallDone

SpecCjk == InitCjk /\ [][NextCjk]_vars

(***************************************************************************)
(* stripSpoilers and htmlToText.  A text is a sequence of the tokens       *)
(* below; each token stands for the characters written next to it, and no  *)
(* pattern of the source matches across a part of a token.                 *)
(***************************************************************************)
\* "<" "<"   ">" ">"   "&" "&"   "q" the double quote   "'" the apostrophe
\* "[" "["   "]" "]"   "span" "/span" "br" "/p" "removed" "spoiler" as written
\* "class=q" class="   "lt;" "gt;" "amp;" "nbsp;" "quot;" "#39;" as written
\* "x" "y" "z" one letter each, "sp" a space, "nl" a line feed
WordTokens == {"span", "br", "removed", "spoiler", "x", "y", "z"}

\* the token begins, or ends, with a character matched by \w
StartsWithWordChar(t) ==
  t \in WordTokens \cup {"class=q", "lt;", "gt;", "amp;", "nbsp;", "quot;"}
EndsWithWordChar(t) == t \in WordTokens \cup {"/span", "/p"}

\* the index of the first element of s at or after i that is in set,
\* 0 if there is none
RECURSIVE FirstIn(_, _, _)
FirstIn(s, i, set) ==
  IF i > Len(s) THEN 0
  ELSE IF s[i] \in set THEN i
  ELSE FirstIn(s, i + 1, set)

\* the index of the first element of s at or after i that is not in set,
\* 0 if there is none
RECURSIVE FirstNotIn(_, _, _)
FirstNotIn(s, i, set) ==
  IF i > Len(s) THEN 0
  ELSE IF s[i] \notin set THEN i
  ELSE FirstNotIn(s, i + 1, set)

\* pat occurs in s at index i
OccursAt(s, i, pat) ==
  i >= 1 /\ i + Len(pat) - 1 <= Len(s) /\ SubSeq(s, i, i + Len(pat) - 1) = pat

\* the index of the first occurrence of pat in s at or after i, 0 if none
RECURSIVE FirstOccurrence(_, _, _)
FirstOccurrence(s, i, pat) ==
  IF i + Len(pat) - 1 > Len(s) THEN 0
  ELSE IF OccursAt(s, i, pat) THEN i
  ELSE FirstOccurrence(s, i + 1, pat)

\* s.replace(/pat/g, rep) for a literal pat
RECURSIVE ReplaceAll(_, _, _)
ReplaceAll(s, pat, rep) ==
  IF s = <<>> THEN <<>>
  ELSE IF OccursAt(s, 1, pat)
  THEN rep \o ReplaceAll(SubSeq(s, Len(pat) + 1, Len(s)), pat, rep)
  ELSE <<Head(s)>> \o ReplaceAll(Tail(s), pat, rep)

Placeholder == <<"[", "spoiler", "sp", "removed", "]">>

SpoilerClass == <<"class=q", "spoiler", "q">>
CloseSpan == <<"<", "/span", ">">>

\* /<span[^>]*class="spoiler"[^>]*>[\s\S]*?<\/span>/ matched at the start
\* of s: the index of the last token of the match, 0 if there is no match
SpoilerMatchEnd(s) ==
  IF ~OccursAt(s, 1, <<"<", "span">>) THEN 0
  ELSE
    LET gt == FirstIn(s, 3, {">"})
    IN  IF gt = 0 THEN 0
        ELSE IF ~\E j \in 3..(gt - 3) : OccursAt(s, j, SpoilerClass) THEN 0
        ELSE
          LET close == FirstOccurrence(s, gt + 1, CloseSpan)
          IN  IF close = 0 THEN 0 ELSE close + 2

\* .replace(/<span[^>]*class="spoiler"[^>]*>[\s\S]*?<\/span>/gi, "[spoiler removed]")
RECURSIVE ReplaceSpoilerSpans(_)
ReplaceSpoilerSpans(s) ==
  IF s = <<>> THEN <<>>
  ELSE
    LET e == SpoilerMatchEnd(s)
    IN  IF e > 0
        THEN Placeholder \o ReplaceSpoilerSpans(SubSeq(s, e + 1, Len(s)))
        ELSE <<Head(s)>> \o ReplaceSpoilerSpans(Tail(s))

\* /\bspoiler\b/ matches the token at index i of s
SpoilerWordAt(s, i) ==
  /\ s[i] = "spoiler"
  /\ i = 1 \/ ~EndsWithWordChar(s[i - 1])
  /\ i = Len(s) \/ ~StartsWithWordChar(s[i + 1])

\* the elements of s whose index is not in drop, in order
RECURSIVE Without(_, _, _)
Without(s, i, drop) ==
  IF i > Len(s) THEN <<>>
  ELSE (IF i \in drop THEN <<>> ELSE <<s[i]>>) \o Without(s, i + 1, drop)

\* .replace(/\bspoiler\b/gi, "")
RemoveSpoilerWord(s) ==
  Without(s, 1, {i \in 1..Len(s) : SpoilerWordAt(s, i)})

\* function stripSpoilers(html)
StripSpoilers(html) ==
  IF html = <<>> THEN <<>>
  ELSE RemoveSpoilerWord(ReplaceSpoilerSpans(html))

\* /<br\s*\/?>/ matched at the start of s: the index of the last token of
\* the match, 0 if there is no match
BrMatchEnd(s) ==
  IF ~OccursAt(s, 1, <<"<", "br">>) THEN 0
  ELSE
    LET next == FirstNotIn(s, 3, WhiteChars)
    IN  IF next # 0 /\ s[next] = ">" THEN next ELSE 0

\* .replace(/<br\s*\/?>/gi, "\n")
RECURSIVE ReplaceBr(_)
ReplaceBr(s) ==
  IF s = <<>> THEN <<>>
  ELSE
    LET e == BrMatchEnd(s)
    IN  IF e > 0 THEN <<"nl">> \o ReplaceBr(SubSeq(s, e + 1, Len(s)))
        ELSE <<Head(s)>> \o ReplaceBr(Tail(s))

\* /<[^>]+>/ matched at the start of s: the index of the last token of the
\* match, 0 if there is no match
TagMatchEnd(s) ==
  IF Head(s) # "<" THEN 0
  ELSE
    LET gt == FirstIn(s, 2, {">"})
    IN  IF gt > 2 THEN gt ELSE 0

\* .replace(/<[^>]+>/g, "")
RECURSIVE RemoveTags(_)
RemoveTags(s) ==
  IF s = <<>> THEN <<>>
  ELSE
    LET e == TagMatchEnd(s)
    IN  IF e > 0 THEN RemoveTags(SubSeq(s, e + 1, Len(s)))
        ELSE <<Head(s)>> \o RemoveTags(Tail(s))

\* the six entity replacements, in the order of the source
DecodeEntities(s) ==
  LET s1 == ReplaceAll(s, <<"&", "nbsp;">>, <<"sp">>)
      s2 == ReplaceAll(s1, <<"&", "amp;">>, <<"&">>)
      s3 == ReplaceAll(s2, <<"&", "lt;">>, <<"<">>)
      s4 == ReplaceAll(s3, <<"&", "gt;">>, <<">">>)
      s5 == ReplaceAll(s4, <<"&", "quot;">>, <<"q">>)
  IN  ReplaceAll(s5, <<"&", "#39;">>, <<"'">>)

\* function htmlToText(html)
HtmlToText(html) ==
  IF html = <<>> THEN <<>>
  ELSE
    LET s1 == ReplaceBr(html)
        s2 == ReplaceAll(s1, <<"<", "/p", ">">>, <<"nl">>)
        s3 == RemoveTags(s2)
    IN  Trim(DecodeEntities(s3))

\* the description of a character as main treats it: stripSpoilers when the
\* character is first seen, htmlToText when the dictionary is written
NormalizeDescription(x) == HtmlToText(StripSpoilers(x))

(***************************************************************************)
(* Specification of the two text functions called on a description, as     *)
(* main calls them, and called again on their own output.                  *)
(***************************************************************************)
\* most pieces of markup a description is made of
MaxPieces == 3

OpenSpoiler == <<"<", "span", "sp", "class=q", "spoiler", "q", ">">>
OpenSpan == <<"<", "span", ">">>

MarkupPieces ==
  {OpenSpoiler,
   OpenSpoiler \o <<"x">> \o OpenSpan \o <<"y">> \o CloseSpan,
   CloseSpan,
   <<"x">>, <<"z">>, <<"spoiler">>, <<"sp">>,
   <<"&", "amp;">>, <<"&", "lt;">>, <<"&", "gt;">>, <<"lt;">>,
   <<"&", "nbsp;">>, <<"&", "quot;">>, <<"&", "#39;">>,
   <<"<", "br", ">">>, <<"<", "/p", ">">>}

RECURSIVE Descriptions(_)
Descriptions(n) ==
  IF n = 0 THEN {<<>>}
  ELSE LET shorter == Descriptions(n - 1)
       IN  shorter \cup {d \o p : d \in shorter, p \in MarkupPieces}

InitText == pc = "idle" /\ MainIdle /\ RestIdle

\* descriptionHtml: INCLUDE_DESC ? stripSpoilers(c.descriptionHtml) : ""
StripSpoilersCall(html) ==
  /\ pc = "idle"
  /\ pc' = "stripped"
  /\ callArg' = html
  /\ callOut' = StripSpoilers(html)
  /\ UNCHANGED exceptCall

\* const descText = it.descriptionHtml ? htmlToText(it.descriptionHtml) : ""
HtmlToTextCall ==
  /\ pc = "stripped"
  /\ pc' = "normalized"
  /\ callOut' = HtmlToText(callOut)
  /\ UNCHANGED <<callArg, exceptCall>>

\* the two functions are applied to the text they returned
NormalizeAgain ==
  /\ pc = "normalized"
  /\ pc' = "renormalized"
  /\ callArg' = callOut
  /\ callOut' = NormalizeDescription(callOut)
  /\ UNCHANGED exceptCall

NextText ==
  \/ \E html \in Descriptions(MaxPieces) : StripSpoilersCall(html)
  \/ HtmlToTextCall
  \/ NormalizeAgain
  \/ CallDone

SpecText == InitText /\ [][NextText]_vars

(***************************************************************************)
(* gql: one call, request by request.  The oldest revision allows 12       *)
(* attempts, the later ones 14.                                            *)
(***************************************************************************)
MaxAttempts == 14
MaxAttemptsOldest == 12

\* for (let attempt = 1; attempt <= 14; attempt++)
AttemptAllowedOneMore(n, limit) == n <= limit + 1
AttemptAllowed(n, limit) == n <= limit

\* what a response is made of: the HTTP status, the Retry-After header
\* (0 when absent) and json.errors joined (<<>> when json.errors is absent)
RateLimitMessages == {"Too Many Requests", "rate limit exceeded"}
OtherMessages == {"Not Found"}

Responses ==
  {[status |-> 429, retryAfter |-> r, errors |-> <<>>] : r \in {0, 2}}
    \cup {[status |-> 200, retryAfter |-> 0, errors |-> <<m>>] :
            m \in RateLimitMessages \cup OtherMessages}
    \cup {[status |-> 200, retryAfter |-> 0, errors |-> <<>>],
          [status |-> 400, retryAfter |-> 0, errors |-> <<"Not Found">>]}

\* /too many requests|rate limit/i.test(msg)
IsRateLimitMessage(msg) == msg \in RateLimitMessages

\* Math.floor(Math.random() * 1200): the least and the largest value
Jitters == {0, 1199}

\* (retryAfter ? retryAfter * 1000 : 2500) + jitter
WaitAfter429(retryAfter, jitter) ==
  (IF retryAfter # 0 THEN retryAfter * 1000 ELSE 2500) + jitter

TooManyRetries == "Too many rate-limit retries"

InitGql == pc = "idle" /\ MainIdle /\ RestIdle

\* gql(query, variables) is called; limit is the bound of the loop
GqlCall(limit) ==
  /\ pc = "idle"
  /\ pc' = "loop"
  /\ callArg' = limit
  /\ callOut' = NoCall
  /\ attempt' = 1
  /\ requests' = 0
  /\ response' = <<>>
  /\ waitMs' = 0
  /\ UNCHANGED <<mainVars, charVars>>

\* one request: await fetch(...) resolves with r, and what follows up to
\* the next await, return or throw
GqlRequest(r, jitter) ==
  /\ pc = "loop"
  /\ AttemptAllowed(attempt, callArg)
  /\ requests' = requests + 1
  /\ response' = <<r>>
  /\ IF r.status = 429
     THEN /\ pc' = "sleeping"
          /\ waitMs' = WaitAfter429(r.retryAfter, jitter)
          /\ callOut' = callOut
     ELSE IF r.errors # <<>>
     THEN IF IsRateLimitMessage(r.errors[1])
          THEN /\ pc' = "sleeping"
               /\ waitMs' = 2500 + jitter
               /\ callOut' = callOut
          ELSE /\ pc' = "raised"
               /\ waitMs' = 0
               /\ callOut' = <<r.errors[1]>>
     ELSE /\ pc' = "returned"
          /\ waitMs' = 0
          /\ callOut' = <<"data">>
  /\ UNCHANGED <<callArg, attempt, mainVars, charVars>>

\* fetch rejects, or res.json() does: the exception leaves gql
GqlRequestFails ==
  /\ pc = "loop"
  /\ AttemptAllowed(attempt, callArg)
  /\ requests' = requests + 1
  /\ response' = <<>>
  /\ pc' = "raised"
  /\ callOut' = <<"fetch failed">>
  /\ UNCHANGED <<callArg, attempt, waitMs, mainVars, charVars>>

\* await sleep(waitMs) ends; continue; attempt++
GqlWake ==
  /\ pc = "sleeping"
  /\ pc' = "loop"
  /\ attempt' = attempt + 1
  /\ waitMs' = 0
  /\ UNCHANGED <<callArg, callOut, requests, response, mainVars, charVars>>

\* the loop ends: throw new Error("Too many rate-limit retries. ...")
GqlGiveUp ==
  /\ pc = "loop"
  /\ ~AttemptAllowed(attempt, callArg)
  /\ pc' = "raised"
  /\ callOut' = <<TooManyRetries>>
  /\ UNCHANGED <<callArg, attempt, requests, response, waitMs, mainVars, charVars>>

\* the caller has the result or the exception
GqlDone ==
  /\ pc \in {"returned", "raised"}
  /\ pc' = "idle"
  /\ callArg' = NoCall
  /\ callOut' = NoCall
  /\ attempt' = 0
  /\ requests' = 0
  /\ response' = <<>>
  /\ waitMs' = 0
  /\ UNCHANGED <<mainVars, charVars>>

NextGql ==
  \/ \E limit \in {MaxAttempts, MaxAttemptsOldest} : GqlCall(limit)
  \/ \E r \in Responses, jitter \in Jitters : GqlRequest(r, jitter)
  \/ GqlRequestFails
  \/ GqlWake
  \/ GqlGiveUp
  \/ GqlDone

\* every await of gql ends: fetch resolves or rejects, the timer fires
SpecGql == InitGql /\ [][NextGql]_vars /\ WF_vars(NextGql)

(***************************************************************************)
(* main: the loop that fills charMap, title by title.                      *)
(***************************************************************************)
\* most titles used in a run
MaxTitles == 2

\* titles as fetchCurrentTitles returns them; two media may share a title
TitlePool ==
  {[id |-> 1, title |-> "Frieren"], [id |-> 2, title |-> "Frieren"],
   [id |-> 3, title |-> "Dandadan"]}

\* const titles = [...anime, ...manga].slice(0, MAX_TITLES), of distinct media
TitleLists ==
  {ts \in UNION {[1..n -> TitlePool] : n \in 1..MaxTitles} :
     \A i, j \in 1..Len(ts) : i # j => ts[i].id # ts[j].id}

\* ed.node of the response; id 0 stands for an absent id
NodeFirst(id) ==
  [id |-> id, nameNative |-> <<"k1", "k2">>, nameFull |-> <<"A", "a">>,
   imageUrl |-> "large.png",
   descriptionHtml |-> <<"<", "span", "sp", "class=q", "spoiler", "q", ">",
                         "x", "<", "/span", ">", "y">>]

NodeOther(id) ==
  [id |-> id, nameNative |-> <<>>, nameFull |-> <<"a">>, imageUrl |-> "",
   descriptionHtml |-> <<"z">>]

NodeNameless(id) ==
  [id |-> id, nameNative |-> <<>>, nameFull |-> <<>>, imageUrl |-> "",
   descriptionHtml |-> <<>>]

EdgeLists ==
  {<<>>,
   <<NodeFirst(1)>>, <<NodeOther(1)>>, <<NodeFirst(2)>>,
   <<NodeFirst(1), NodeOther(2)>>, <<NodeOther(2), NodeFirst(1)>>,
   <<NodeOther(1), NodeFirst(1)>>, <<NodeFirst(2), NodeFirst(2)>>,
   <<NodeFirst(0), NodeOther(2)>>, <<NodeNameless(1), NodeOther(1)>>,
   <<NodeNameless(2)>>}

\* .filter(c => c.id && (c.nameNative || c.nameFull))
KeepsCharacter(c) == c.id # 0 /\ (c.nameNative # <<>> \/ c.nameFull # <<>>)

\* what fetchCharactersForMedia returns for the edges of the response
FetchCharactersForMedia(edges) == SelectSeq(edges, KeepsCharacter)

\* String(c.id)
Digits == <<"1", "2", "3", "4", "5", "6", "7", "8", "9">>
StringOfId(id) == Digits[id]

\* charMap.set(key, value)
MapSet(m, key, value) ==
  [k \in DOMAIN m \cup {key} |-> IF k = key THEN value ELSE m[k]]

\* the value main builds for a character it has not seen
NewEntry(c, inc) ==
  [id |-> StringOfId(c.id),
   nameNative |-> c.nameNative,
   nameFull |-> c.nameFull,
   imageUrl |-> c.imageUrl,
   descriptionHtml |-> IF inc THEN StripSpoilers(c.descriptionHtml) ELSE <<>>,
   fromSet |-> {}]

\* if (!charMap.has(key)) charMap.set(key, {...})
SetAlways(m, c, inc) == MapSet(m, StringOfId(c.id), NewEntry(c, inc))
SetIfAbsent(m, c, inc) ==
  IF StringOfId(c.id) \in DOMAIN m THEN m
  ELSE MapSet(m, StringOfId(c.id), NewEntry(c, inc))

\* charMap.get(key).fromSet.add(t.title)
AddTitle(m, c, t) ==
  [m EXCEPT ![StringOfId(c.id)].fromSet = @ \cup {t.title}]

\* for (const c of chars) { ... }
RECURSIVE AddCharacters(_, _, _, _)
AddCharacters(m, chars, t, inc) ==
  IF chars = <<>> THEN m
  ELSE AddCharacters(AddTitle(SetIfAbsent(m, Head(chars), inc), Head(chars), t),
                     Tail(chars), t, inc)

InitChars == pc = "idle" /\ MainIdle /\ RestIdle

\* const charMap = new Map(), with the titles and INCLUDE_DESC of the run
CharsBegin(ts, inc) ==
  /\ pc = "idle"
  /\ pc' = "titles"
  /\ titles' = ts
  /\ includeDesc' = inc
  /\ cursor' = 1
  /\ charMap' = EmptyMap
  /\ fetched' = <<>>
  /\ UNCHANGED <<mainVars, callVars, gqlVars>>

\* one iteration of for (let i = 0; i < titles.length; i++)
ProcessTitle(edges) ==
  /\ pc = "titles"
  /\ cursor <= Len(titles)
  /\ LET chars == FetchCharactersForMedia(edges)
     IN  /\ charMap' = AddCharacters(charMap, chars, titles[cursor], includeDesc)
         /\ fetched' = Append(fetched, chars)
  /\ cursor' = cursor + 1
  /\ UNCHANGED <<pc, titles, includeDesc, mainVars, callVars, gqlVars>>

\* fetchCharactersForMedia throws: main ends with the exception
FetchCharactersFails ==
  /\ pc = "titles"
  /\ cursor <= Len(titles)
  /\ pc' = "raised"
  /\ UNCHANGED <<charVars, mainVars, callVars, gqlVars>>

\* the loop is over: console.log("Unique characters:", charMap.size)
CharsEnd ==
  /\ pc = "titles"
  /\ cursor > Len(titles)
  /\ pc' = "mapped"
  /\ UNCHANGED <<charVars, mainVars, callVars, gqlVars>>

CharsDone ==
  /\ pc \in {"mapped", "raised"}
  /\ pc' = "idle"
  /\ titles' = <<>>
  /\ cursor' = 0
  /\ includeDesc' = FALSE
  /\ charMap' = EmptyMap
  /\ fetched' = <<>>
  /\ UNCHANGED <<mainVars, callVars, gqlVars>>

NextChars ==
  \/ \E ts \in TitleLists, inc \in BOOLEAN : CharsBegin(ts, inc)
  \/ \E edges \in EdgeLists : ProcessTitle(edges)
  \/ FetchCharactersFails
  \/ CharsEnd
  \/ CharsDone

SpecChars == InitChars /\ [][NextChars]_vars

(***************************************************************************)
(* fetchCurrentTitles and the title list of main.  A response is what gql  *)
(* returned as data; an absent or null field is Null, a present one        *)
(* Some(value).  An id of 0 stands for every falsy id (null, undefined,    *)
(* 0), a title field of "" for an absent one.                              *)
(***************************************************************************)
MaxLists == 2
MaxEntries == 2

\* media.title { romaji english native }
Title(english, romaji, native) ==
  Some([english |-> english, romaji |-> romaji, native |-> native])

\* entries { status media { id title } }
Media(id, title) == Some([id |-> id, title |-> title])
Entry(status, media) == Some([status |-> status, media |-> media])

EntryPool ==
  {Null,
   Entry("CURRENT", Null),
   Entry("CURRENT", Media(0, Title("Nameless", "", ""))),
   Entry("CURRENT", Media(1, Title("Frieren", "Sousou no Frieren", ""))),
   Entry("CURRENT", Media(1, Title("", "Sousou no Frieren", ""))),
   Entry("CURRENT", Media(2, Title("", "", "Dandadan"))),
   Entry("CURRENT", Media(3, Null)),
   Entry("COMPLETED", Media(4, Title("Monster", "", ""))),
   Entry("PLANNING", Media(2, Title("", "", "Dandadan")))}

\* lists { entries }
MediaLists ==
  {[entries |-> Null]} \cup
  {[entries |-> Some(es)] :
     es \in UNION {[1..n -> EntryPool] : n \in 0..MaxEntries}}

\* data of the response: null, without its collection, without lists, or
\* with up to n lists
Collections(n) ==
  {Null, Some([MediaListCollection |-> Null]),
   Some([MediaListCollection |-> Some([lists |-> Null])])} \cup
  {Some([MediaListCollection |-> Some([lists |-> Some(ls)])]) :
     ls \in UNION {[1..k -> MediaLists] : k \in 0..n}}

\* data?.MediaListCollection?.lists || []
ListsOfData(data) ==
  IF data = Null THEN <<>>
  ELSE LET coll == data[1].MediaListCollection
       IN  IF coll = Null THEN <<>>
           ELSE IF coll[1].lists = Null THEN <<>> ELSE coll[1].lists[1]

\* .flatMap(l => l.entries || [])
RECURSIVE FlatMapEntries(_)
FlatMapEntries(lists) ==
  IF lists = <<>> THEN <<>>
  ELSE (IF Head(lists).entries = Null THEN <<>> ELSE Head(lists).entries[1])
       \o FlatMapEntries(Tail(lists))

\* e?.status === "CURRENT"
IsCurrent(e) == e # Null /\ e[1].status = "CURRENT"

CurrentEntries(data) == SelectSeq(FlatMapEntries(ListsOfData(data)), IsCurrent)

\* e?.media?.id
MediaIdOf(e) ==
  IF e = Null THEN 0 ELSE IF e[1].media = Null THEN 0 ELSE e[1].media[1].id

\* const t = e.media.title || {}; t.english || t.romaji || t.native || String(id)
TitleOf(e) ==
  LET m == e[1].media[1]
  IN  IF m.title = Null THEN StringOfId(m.id)
      ELSE LET t == m.title[1]
           IN  IF t.english # "" THEN t.english
               ELSE IF t.romaji # "" THEN t.romaji
               ELSE IF t.native # "" THEN t.native
               ELSE StringOfId(m.id)

\* for (const e of entries) { ... }, from the i-th entry on
RECURSIVE TitlesLoop(_, _, _, _, _)
TitlesLoop(entries, i, seen, out, maxTitles) ==
  IF i > Len(entries) THEN out
  ELSE LET e == entries[i]
           id == MediaIdOf(e)
       IN  IF id = 0 \/ id \in seen
           THEN TitlesLoop(entries, i + 1, seen, out, maxTitles)
           ELSE LET pushed == Append(out, [id |-> id, title |-> TitleOf(e)])
                IN  IF Len(pushed) >= maxTitles THEN pushed
                    ELSE TitlesLoop(entries, i + 1, seen \cup {id}, pushed,
                                    maxTitles)

\* what fetchCurrentTitles returns when gql returned data
FetchCurrentTitles(data, maxTitles) ==
  TitlesLoop(CurrentEntries(data), 1, {}, <<>>, maxTitles)

\* s.slice(0, n), n >= 0
SliceFromStart(s, n) == SubSeq(s, 1, IF n < Len(s) THEN n ELSE Len(s))

\* [...anime, ...manga].slice(0, MAX_TITLES)
TitlesUsed(anime, manga, maxTitles) == SliceFromStart(anime \o manga, maxTitles)

\* MAX_TITLES = Number(process.env.MAX_TITLES || "50"), a count
MaxTitlesValues == 0..MaxTitles

\* the responses given to a call on its own, and to each of the two calls
\* of main
CallResponses == Collections(MaxLists)
MainResponses == Collections(1)

InitTitles == pc = "idle" /\ MainIdle /\ RestIdle

\* fetchCurrentTitles(userName, type, maxTitles), gql having returned data
FetchCurrentTitlesCall ==
  /\ pc = "idle"
  /\ \E data \in CallResponses, maxTitles \in MaxTitlesValues :
       /\ callArg' = [data |-> data, maxTitles |-> maxTitles]
       /\ callOut' = FetchCurrentTitles(data, maxTitles)
  /\ pc' = "returned"
  /\ UNCHANGED exceptCall

\* main: both calls of fetchCurrentTitles have returned
TitlesFetched ==
  /\ pc = "idle"
  /\ \E animeData, mangaData \in MainResponses, maxTitles \in MaxTitlesValues :
       /\ callArg' = [anime |-> animeData, manga |-> mangaData,
                      maxTitles |-> maxTitles]
       /\ callOut' = [anime |-> FetchCurrentTitles(animeData, maxTitles),
                      manga |-> FetchCurrentTitles(mangaData, maxTitles)]
  /\ pc' = "fetched"
  /\ UNCHANGED exceptCall

\* main: gql threw in one of the two calls
TitlesFetchFails ==
  /\ pc = "idle"
  /\ pc' = "failed"
  /\ error' \in {"Too many rate-limit retries", "GraphQL error"}
  /\ UNCHANGED <<jm, loadVars, segVars, aliasVars, restVars>>

\* main: const titles = ...; if (titles.length === 0) throw
TitlesMerge ==
  /\ pc = "fetched"
  /\ LET used == TitlesUsed(callOut.anime, callOut.manga, callArg.maxTitles)
     IN  /\ titles' = used
         /\ IF used = <<>>
            THEN pc' = "failed" /\ error' = "No CURRENT entries found"
            ELSE pc' = "titles" /\ error' = error
  /\ UNCHANGED <<jm, loadVars, segVars, aliasVars, callVars, gqlVars,
                 cursor, includeDesc, charMap, fetched>>

TitlesDone ==
  /\ pc \in {"titles", "failed"}
  /\ pc' = "idle"
  /\ callArg' = NoCall
  /\ callOut' = NoCall
  /\ titles' = <<>>
  /\ error' = ""
  /\ UNCHANGED <<jm, loadVars, segVars, aliasVars, gqlVars,
                 cursor, includeDesc, charMap, fetched>>

NextTitles ==
  \/ FetchCurrentTitlesCall
  \/ CallDone
  \/ TitlesFetched
  \/ TitlesFetchFails
  \/ TitlesMerge
  \/ TitlesDone

SpecTitles == InitTitles /\ [][NextTitles]_vars

(***************************************************************************)
(* Vocabulary of the properties, stated without the model's helpers.       *)
(***************************************************************************)
\* s without its leading and trailing whitespace
Stripped(s) ==
  LET idx == {i \in 1..Len(s) : s[i] \notin WhiteChars}
  IN  IF idx = {} THEN <<>>
      ELSE SubSeq(s, CHOOSE i \in idx : \A j \in idx : i <= j,
                     CHOOSE i \in idx : \A j \in idx : i >= j)

EveryCharCjk(s) == \A i \in 1..Len(s) : s[i] \in CjkChars

\* what isAllCjk is specified to accept: after trimming, non-empty and CJK only
PassesIsAllCjk(s) == Stripped(s) # <<>> /\ EveryCharCjk(Stripped(s))

\* the cut positions of s whose two sides are in the lexicon
KeepableCuts(s, lex) ==
  {c \in 1..(Len(s) - 1) :
     /\ SubSeq(s, 1, c) \in lex.surnames
     /\ SubSeq(s, c + 1, Len(s)) \in lex.givennames}

\* the score of the cut after c characters of a name of n characters
CutScore(c, n) ==
  100 + (IF c = 2 THEN 15 ELSE 0) + (IF c = 3 THEN 8 ELSE 0)
      + (IF c < 5 THEN c ELSE 5) + (IF n - c < 5 THEN n - c ELSE 5)

Returned == pc = "returned"
Split == segOut.result[1]
Found == Returned /\ segOut.result # Null

(***************************************************************************)
(* C1 (as stated): whenever segment returns a non-null result, surname     *)
(* followed by given equals the input string exactly, also when the input  *)
(* carries leading or trailing whitespace.                                 *)
(***************************************************************************)
C1_RoundTripOfInput ==
  Found => Split.surname \o Split.given = segName

(***************************************************************************)
(* C1 (amended): whenever segment returns a non-null result, surname       *)
(* followed by given equals the input string with its leading and trailing *)
(* whitespace removed: between those, no character is dropped, added or    *)
(* reordered.                                                              *)
(***************************************************************************)
C1_RoundTripOfTrimmedInput ==
  Found => Split.surname \o Split.given = Stripped(segName)

C1_Witness ==
  /\ Found
  /\ segName # Stripped(segName)
  /\ Split.surname = <<"k1", "k2">>
  /\ Split.given = <<"k1", "k1">>

(***************************************************************************)
(* C2: every non-null result of segment is a keepable cut: surname and     *)
(* given are non-empty, surname is in the lexicon's Surnames and given in  *)
(* its GivenNames; when no cut position of the scanned name yields such a  *)
(* pair, the result is null.                                               *)
(***************************************************************************)
C2_ResultIsKeepableCut ==
  /\ Found =>
       /\ jm # Null
       /\ Split.surname # <<>>
       /\ Split.given # <<>>
       /\ Split.surname \in jm[1].surnames
       /\ Split.given \in jm[1].givennames
  /\ (Returned /\ jm # Null /\ KeepableCuts(Stripped(segName), jm[1]) = {})
       => segOut.result = Null

C2_Witness ==
  /\ Found
  /\ Cardinality(jm[1].surnames) >= 2
  /\ Cardinality(jm[1].givennames) >= 2
  /\ Cardinality(KeepableCuts(Stripped(segName), jm[1])) = 1

(***************************************************************************)
(* C3: for an all-CJK name of 2..8 characters and a lexicon with at least  *)
(* one keepable cut, segment returns a keepable cut whose score is at      *)
(* least the score of every keepable cut, the score being 100, +15 for a   *)
(* 2-character surname, +8 for a 3-character one, + min(5, |surname|)      *)
(* + min(5, |given|).                                                      *)
(***************************************************************************)
C3_ResultHasMaximalScore ==
  LET s == Stripped(segName)
      n == Len(s)
  IN  (/\ Returned
       /\ jm # Null
       /\ PassesIsAllCjk(segName)
       /\ n >= 2 /\ n <= 8
       /\ KeepableCuts(s, jm[1]) # {})
      => /\ segOut.result # Null
         /\ Len(Split.surname) \in KeepableCuts(s, jm[1])
         /\ \A c \in KeepableCuts(s, jm[1]) :
              CutScore(Len(Split.surname), n) >= CutScore(c, n)

C3_Witness ==
  LET s == Stripped(segName)
  IN  /\ Found
      /\ Len(s) = 7
      /\ KeepableCuts(s, jm[1]) = {1, 5}
      /\ Len(Split.surname) = 5

(***************************************************************************)
(* C4: when several keepable cuts of a name share the maximal score,       *)
(* segment returns the one with the smallest cut position; during the      *)
(* left-to-right scan the running best is replaced only by a strictly      *)
(* greater score.                                                          *)
(***************************************************************************)
C4_FirstOfEqualScoresWins ==
  LET s == Stripped(segName)
      n == Len(s)
      h == segOut.history
  IN  Found =>
        /\ \A c \in KeepableCuts(s, jm[1]) :
             CutScore(c, n) = CutScore(Len(Split.surname), n)
               => Len(Split.surname) <= c
        /\ \A i \in 1..(Len(h) - 1) :
             /\ h[i].score < h[i + 1].score
             /\ h[i].cut < h[i + 1].cut
        /\ Len(h) >= 1
        /\ h[Len(h)].cut = Len(Split.surname)

C4_Witness ==
  LET s == Stripped(segName)
  IN  /\ Found
      /\ Len(s) = 8
      /\ KeepableCuts(s, jm[1]) = {4, 5}
      /\ CutScore(4, 8) = CutScore(5, 8)
      /\ Len(Split.surname) = 4

(***************************************************************************)
(* C5 (as stated): segment returns null, without consulting the lexicon    *)
(* and without raising, whenever the name is empty, fails isAllCjk, or has *)
(* a length, of the name as passed, outside 2..8.                          *)
(***************************************************************************)
C5_NullOnRejectedInputAsPassed ==
  (/\ Returned
   /\ \/ segName = <<>>
      \/ ~PassesIsAllCjk(segName)
      \/ Len(segName) < 2
      \/ Len(segName) > 8)
  => /\ segOut.result = Null
     /\ ~segOut.raised
     /\ segOut.lookups = 0

(***************************************************************************)
(* C5 (amended): segment returns null, without consulting the lexicon and  *)
(* without raising, whenever the name is empty, fails isAllCjk, or has a   *)
(* length, counted after removing its leading and trailing whitespace,     *)
(* outside 2..8.                                                           *)
(***************************************************************************)
C5_NullOnRejectedInput ==
  (/\ Returned
   /\ \/ segName = <<>>
      \/ ~PassesIsAllCjk(segName)
      \/ Len(Stripped(segName)) < 2
      \/ Len(Stripped(segName)) > 8)
  => /\ segOut.result = Null
     /\ ~segOut.raised
     /\ segOut.lookups = 0

C5_Witness ==
  /\ Returned
  /\ jm = Null
  /\ EveryCharCjk(segName)
  /\ Len(segName) = 9
  /\ segOut.result = Null
  /\ ~segOut.raised

(***************************************************************************)
(* C6: for a name of 4..8 characters whose cut after 2 characters and cut  *)
(* after 3 characters are both keepable, segment never returns the         *)
(* 3-character-surname cut: the 2-character cut scores strictly higher.    *)
(***************************************************************************)
C6_TwoCharSurnamePreferred ==
  LET s == Stripped(segName)
      n == Len(s)
  IN  (/\ Returned
       /\ jm # Null
       /\ n >= 4 /\ n <= 8
       /\ {2, 3} \subseteq KeepableCuts(s, jm[1]))
      => /\ segOut.result # Null
         /\ Len(Split.surname) # 3
         /\ CutScore(2, n) > CutScore(3, n)

C6_Witness ==
  LET s == Stripped(segName)
  IN  /\ Found
      /\ Len(s) = 8
      /\ KeepableCuts(s, jm[1]) = {2, 3}
      /\ Split.surname = <<"k1", "k1">>

(***************************************************************************)
(* Vocabulary of the alias properties.                                     *)
(***************************************************************************)
\* a is a non-empty contiguous piece of x
IsSubstring(a, x) ==
  \E i \in 1..Len(x) : \E j \in i..Len(x) : a = SubSeq(x, i, j)

\* a is x with some of its separator characters deleted
RECURSIVE SeparatorsRemoved(_, _)
SeparatorsRemoved(a, x) ==
  IF x = <<>> THEN a = <<>>
  ELSE \/ a # <<>> /\ Head(a) = Head(x) /\ SeparatorsRemoved(Tail(a), Tail(x))
       \/ Head(x) \in SeparatorChars /\ SeparatorsRemoved(a, Tail(x))

LowerCased(x) == [i \in 1..Len(x) |-> IF x[i] = "A" THEN "a" ELSE x[i]]

CharsOf(x) == {x[i] : i \in 1..Len(x)}

\* the maximal separator-free pieces of x, as pairs of positions
PartSpans(x) ==
  {sp \in (1..Len(x)) \X (1..Len(x)) :
     /\ sp[1] <= sp[2]
     /\ \A i \in sp[1]..sp[2] : x[i] \notin SeparatorChars
     /\ sp[1] = 1 \/ x[sp[1] - 1] \in SeparatorChars
     /\ sp[2] = Len(x) \/ x[sp[2] + 1] \in SeparatorChars}

PartsOf(x) == {SubSeq(x, sp[1], sp[2]) : sp \in PartSpans(x)}

InMakeAliases == pc \in {"originals", "normalize", "split", "fullParts", "return"}
AfterSplitStep == pc \in {"fullParts", "return"}

(***************************************************************************)
(* C7: every alias built by makeAliases is non-empty and made of the       *)
(* characters of the inputs: it is a piece of native or of full, or native *)
(* or full with separator characters removed, or a piece of lower-cased    *)
(* full; no alias holds a character that is in neither native nor full, up *)
(* to lower-casing.                                                        *)
(***************************************************************************)
C7_AliasesMadeOfInputs ==
  InMakeAliases =>
    \A a \in aliases :
      /\ a # <<>>
      /\ \/ IsSubstring(a, nameNative)
         \/ IsSubstring(a, nameFull)
         \/ SeparatorsRemoved(a, nameNative)
         \/ SeparatorsRemoved(a, nameFull)
         \/ IsSubstring(a, LowerCased(nameFull))
      /\ CharsOf(a) \subseteq
           CharsOf(nameNative) \cup CharsOf(nameFull)
             \cup CharsOf(LowerCased(nameFull))

C7_Witness ==
  /\ pc = "return"
  /\ nameNative = <<"k1", "k2", "k2">>
  /\ nameFull = <<"A", "a", "sp", "A">>
  /\ aliases = {<<"k1", "k2", "k2">>, <<"k1", "k2">>, <<"k2">>,
                <<"A", "a", "sp", "A">>, <<"a", "a", "sp", "a">>,
                <<"A", "a">>, <<"a", "a">>, <<"A">>, <<"a">>}

C9_OriginalsPresent ==
  pc \in {"normalize", "split", "fullParts", "return"} =>
    /\ Stripped(nameNative) # <<>> => Stripped(nameNative) \in aliases
    /\ Stripped(nameFull) # <<>> => Stripped(nameFull) \in aliases

C9_StepsOnlyAdd ==
  (InMakeAliases /\ pc # "return") => aliases \subseteq aliases'

C9_OriginalsKept == []C9_OriginalsPresent /\ [][C9_StepsOnlyAdd]_vars

C9_Witness ==
  /\ pc = "return"
  /\ splitCalls = 1
  /\ segOut.result = Null
  /\ nameNative = <<"k1", "k2", "k2">>
  /\ nameFull = <<"A", "a">>
  /\ aliases = {<<"k1", "k2", "k2">>, <<"A", "a">>, <<"a", "a">>}

(***************************************************************************)
(* C10: every member of the surnames and of the given names built by       *)
(* loadJmnedictSets is a non-empty string of CJK characters only; a        *)
(* written form with a non-CJK character is in neither set, whatever the   *)
(* types of its word.                                                      *)
(***************************************************************************)
C10_LexiconEntriesAllCjk ==
  LET built == surnames \cup givennames
                 \cup (IF jm = Null THEN {}
                       ELSE jm[1].surnames \cup jm[1].givennames)
  IN  /\ \A f \in built : f # <<>> /\ EveryCharCjk(f)
      /\ lastWord # Null =>
           \A i \in 1..Len(KanjiArr(lastWord[1])) :
             ~EveryCharCjk(KanjiArr(lastWord[1])[i])
               => KanjiArr(lastWord[1])[i] \notin built

C10_Witness ==
  /\ pc = "load"
  /\ lastWord = Some([kanji |-> Some(<< <<"k1">>, <<"k1", "a">> >>),
                      translation |-> Some({"surname", "given"})])
  /\ surnames = {<<"k1">>}
  /\ givennames = {<<"k1">>, <<"k2">>}

(***************************************************************************)
(* Vocabulary of the properties of the lexicon index.                      *)
(***************************************************************************)
SurnameTags == {"surname", "family"}
GivenTags == {"given", "person", "fem", "masc"}

\* the written forms a JSON record lists and the tags it carries
ListedForms(w) ==
  IF w.kanji = <<>> THEN {}
  ELSE {w.kanji[1][i] : i \in 1..Len(w.kanji[1])}

TagsOf(w) == IF w.translation = <<>> THEN {} ELSE w.translation[1]

\* a step of the JSON loader that visits one record
VisitsRecord == pc = "load" /\ pc' = "load"

\* a step of the XML loader that ends one <entry>
EndsEntry == pc = "xml" /\ inEntry /\ ~inEntry' /\ pc' = "xml"

\* what a visited record with the given forms and tags puts in a set
Contributes(forms, tags, wanted) ==
  IF tags \cap wanted # {} THEN forms ELSE {}

(***************************************************************************)
(* C11 (as stated): starting from two empty sets, every record visited     *)
(* adds to Surnames exactly the written forms it lists that are all-CJK,   *)
(* if it carries a tag in {surname, family}, and to GivenNames exactly     *)
(* those forms if it carries a tag in {given, person, fem, masc}; so a     *)
(* form w is in a set iff w is all-CJK and some record listing w carries   *)
(* a tag of that kind.                                                     *)
(***************************************************************************)
C11_ListedFormsAsWritten ==
  [][VisitsRecord =>
       LET w == lastWord'[1]
           cjk == {f \in ListedForms(w) : PassesIsAllCjk(f)}
       IN  /\ surnames' = surnames \cup Contributes(cjk, TagsOf(w), SurnameTags)
           /\ givennames' = givennames \cup Contributes(cjk, TagsOf(w), GivenTags)
    ]_vars

(***************************************************************************)
(* C11 (amended): the same, for written forms taken without their leading  *)
(* and trailing whitespace: starting from two empty sets, every record     *)
(* visited adds to Surnames exactly its all-CJK forms, stripped, if it     *)
(* carries a tag in {surname, family}, and to GivenNames exactly those if  *)
(* it carries a tag in {given, person, fem, masc}; a record with both      *)
(* kinds adds to both sets; a record with neither, or a malformed one,     *)
(* adds nothing and the build goes on; the index returned holds the two    *)
(* sets so built.  In the XML revision the forms of an entry are the       *)
(* stripped texts of its <keb> elements.                                   *)
(***************************************************************************)
C11_SetsStartEmpty ==
  (pc = "start" /\ pc' \in {"load", "xml"}) =>
    surnames' = {} /\ givennames' = {}

C11_JsonRecord ==
  VisitsRecord =>
    LET w == lastWord'[1]
        cjk == {Stripped(f) : f \in {g \in ListedForms(w) : PassesIsAllCjk(g)}}
    IN  /\ surnames' = surnames \cup Contributes(cjk, TagsOf(w), SurnameTags)
        /\ givennames' = givennames \cup Contributes(cjk, TagsOf(w), GivenTags)
        /\ error' = ""

C11_XmlEntry ==
  EndsEntry =>
    LET cjk == {kebs[i] : i \in {j \in 1..Len(kebs) : PassesIsAllCjk(kebs[j])}}
    IN  /\ surnames' = surnames \cup Contributes(cjk, nameTypes, SurnameTags)
        /\ givennames' = givennames \cup Contributes(cjk, nameTypes, GivenTags)
        /\ error' = ""

\* between two records the sets stay as they are as long as the build goes
\* on, and a <keb> read is kept stripped
C11_OnlyRecordsAdd ==
  /\ (pc \in {"load", "xml"} /\ pc' # "failed" /\ ~VisitsRecord /\ ~EndsEntry) =>
       surnames' = surnames /\ givennames' = givennames
  /\ (pc = "xml" /\ pc' = "xml" /\ kebs' # kebs /\ inEntry') =>
       \/ kebs' = <<>>
       \/ /\ Len(kebs') = Len(kebs) + 1
          /\ SubSeq(kebs', 1, Len(kebs)) = kebs
          /\ kebs'[Len(kebs')] # <<>>
          /\ kebs'[Len(kebs')] = Stripped(kebs'[Len(kebs')])
  /\ pc = "load" => pc' # "failed"

C11_IndexIsWhatWasBuilt ==
  (pc \in {"load", "xml"} /\ pc' = "fetch") =>
    jm' = <<[surnames |-> surnames, givennames |-> givennames]>>

C11_LexiconIffTagged ==
  [][/\ C11_SetsStartEmpty
     /\ C11_JsonRecord
     /\ C11_XmlEntry
     /\ C11_OnlyRecordsAdd
     /\ C11_IndexIsWhatWasBuilt]_vars

C11_Witness ==
  /\ pc = "load"
  /\ lastWord = <<[kanji |-> << << <<"sp", "k1", "sp">>, <<"k2">> >> >>,
                   translation |-> << {"surname", "given"} >>]>>
  /\ surnames = {<<"k1">>, <<"k2">>}
  /\ givennames = {<<"k1">>, <<"k2">>}

(***************************************************************************)
(* C12: in the JSON revision and in the XML revision, loadJmnedictSets     *)
(* ends in an error handed to its caller, and returns no index, whenever   *)
(* the raw source cannot be parsed or holds no records: an index is only   *)
(* ever returned from a source with at least one record, and a failed      *)
(* load leaves an error message and no index.                              *)
(***************************************************************************)
C12_LoadFailsLoudly ==
  /\ jm # Null => records >= 1
  /\ pc = "failed" => jm = Null /\ error # ""

(***************************************************************************)
(* C13: in a run of main with the lexicon enabled, the construction of the *)
(* index has finished before anything that follows it: whenever main is    *)
(* past the load with an index, every record of the source was visited and *)
(* the index holds the two finished sets, so the first call of             *)
(* bestSplitWithJmnedict (via makeAliases) sees the complete index.  If    *)
(* the construction fails, the run ends there with an error message: no    *)
(* alias was derived, no segmentation was made, and no step follows, so    *)
(* no dictionary is exported.                                              *)
(***************************************************************************)
LoaderErrors ==
  {"GitHub API failed", "Could not find a JMnedict asset",
   "JMnedict asset download failed", "Failed to parse JMnedict JSON",
   "JMnedict JSON has no words[]", "JMnedict download failed",
   "XML parse error"}

PastLoad == pc \notin {"start", "load", "xml", "failed"}

C13_IndexCompleteWhenUsed ==
  /\ (PastLoad /\ jm # Null) =>
       /\ remaining = 0
       /\ ~inEntry
       /\ jm = <<[surnames |-> surnames, givennames |-> givennames]>>
  /\ (InMakeAliases \/ splitCalls > 0) => PastLoad
  /\ pc \in {"start", "load", "xml"} => jm = <<>>

C13_FailedLoadDidNothing ==
  (pc = "failed" /\ error \in LoaderErrors) =>
    /\ jm = <<>>
    /\ aliases = {} /\ stepAdds = <<>> /\ splitCalls = 0
    /\ segName = <<>> /\ segOut.result = <<>> /\ segOut.lookups = 0

\* a step is taken only by a run that has not failed
C13_FailureEndsRun == pc # "failed" /\ (pc' = "failed" => error' # "")

C13_LoadBeforeSegmentation ==
  /\ [](C13_IndexCompleteWhenUsed /\ C13_FailedLoadDidNothing)
  /\ [][C13_FailureEndsRun]_vars

C13_Witness ==
  /\ pc = "return"
  /\ splitCalls = 1
  /\ segOut.result # <<>>
  /\ records = 2
  /\ jm = <<[surnames |-> {<<"k1">>}, givennames |-> {<<"k2">>}]>>

(***************************************************************************)
(* C14: isAllCjk(s) returns true if and only if s, without its leading and *)
(* trailing whitespace, is non-empty and made of CJK ideographs (or the    *)
(* iteration mark) only; it returns false for an empty, whitespace-only or *)
(* absent (null, undefined) input and for any string that holds a kana, a  *)
(* Latin letter, a digit, a punctuation character or whitespace between    *)
(* two other characters; it always returns a boolean.                      *)
(***************************************************************************)
HoldsInteriorWhitespace(s) ==
  \E i, j, k \in 1..Len(s) :
    i < j /\ j < k /\ s[i] \notin WhiteChars /\ s[j] \in WhiteChars
      /\ s[k] \notin WhiteChars

C14_IsAllCjkIffTrimmedCjk ==
  (pc = "returned" /\ callArg # <<>>) =>
    LET s == callArg.chars
    IN  /\ callOut \in BOOLEAN
        /\ callOut <=>
             /\ callArg.type = "string"
             /\ Stripped(s) # <<>>
             /\ \A i \in 1..Len(Stripped(s)) : Stripped(s)[i] \in {"k1", "k2"}
        /\ callArg.type \in {"null", "undefined"} => ~callOut
        /\ (\A i \in 1..Len(s) : s[i] = "sp") => ~callOut
        /\ (\E i \in 1..Len(s) : s[i] \in {"ka", "A", "a", "n1", "dot", "eq"})
             => ~callOut
        /\ HoldsInteriorWhitespace(s) => ~callOut

C14_Witness ==
  /\ pc = "returned"
  /\ callArg = [type |-> "string", chars |-> <<"sp", "k2", "sp">>]
  /\ callOut = TRUE

(***************************************************************************)
(* C15: normalizeDescription (stripSpoilers, then htmlToText) is           *)
(* idempotent: applied to its own output it returns that output unchanged, *)
(* also for inputs with encoded entities such as an encoded ampersand      *)
(* followed by "lt;" or encoded angle brackets around a tag name.          *)
(***************************************************************************)
C15_NormalizeIdempotent ==
  pc = "renormalized" => callOut = callArg

(***************************************************************************)
(* Markup as the properties read it.                                       *)
(***************************************************************************)
\* x holds, from index i, an opening span tag with class="spoiler" that
\* ends at index k
SpoilerTagAt(x, i, k) ==
  /\ i + 1 < k /\ k <= Len(x)
  /\ x[i] = "<" /\ x[i + 1] = "span" /\ x[k] = ">"
  /\ \A j \in (i + 1)..(k - 1) : x[j] # ">"
  /\ \E j \in (i + 2)..(k - 3) :
       x[j] = "class=q" /\ x[j + 1] = "spoiler" /\ x[j + 2] = "q"

ClosingTagAt(x, m) ==
  m + 2 <= Len(x) /\ x[m] = "<" /\ x[m + 1] = "/span" /\ x[m + 2] = ">"

OpeningTagAt(x, m) == m + 1 <= Len(x) /\ x[m] = "<" /\ x[m + 1] = "span"

\* the number of spans open at index m that were opened after index k
Depth(x, k, m) ==
  Cardinality({o \in (k + 1)..m : OpeningTagAt(x, o)})
    - Cardinality({c \in (k + 1)..m : ClosingTagAt(x, c)})

\* the closing tag at index m matches the opening tag that ends at index k
MatchingClose(x, k, m) ==
  /\ m > k /\ ClosingTagAt(x, m)
  /\ Depth(x, k, m) = -1
  /\ \A n \in (k + 1)..(m - 1) : Depth(x, k, n) >= 0

\* the spoiler-marked spans of x, as <<first index, last index>>
SpoilerSpans(x) ==
  {sp \in (1..Len(x)) \X (1..Len(x)) :
     \E k \in sp[1]..sp[2] :
       /\ SpoilerTagAt(x, sp[1], k)
       /\ MatchingClose(x, k, sp[2] - 2)}

\* the indices of x that lie inside a spoiler-marked span
InsideSpoiler(x) ==
  {i \in 1..Len(x) : \E sp \in SpoilerSpans(x) : sp[1] <= i /\ i <= sp[2]}

\* the number of places where pat occurs in x
Occurrences(x, pat) ==
  Cardinality({i \in 1..Len(x) :
                 i + Len(pat) - 1 <= Len(x)
                   /\ SubSeq(x, i, i + Len(pat) - 1) = pat})

\* the spoiler-marked spans of x that lie in no other one
OutermostSpoilerSpans(x) ==
  {sp \in SpoilerSpans(x) :
     ~\E other \in SpoilerSpans(x) :
        other # sp /\ other[1] <= sp[1] /\ sp[2] <= other[2]}

(***************************************************************************)
(* C16: for every input that holds a spoiler-marked span, the output of    *)
(* stripSpoilers holds the placeholder "[spoiler removed]" where each such *)
(* span was: the deletion of the word "spoiler" leaves the placeholder     *)
(* intact.                                                                 *)
(***************************************************************************)
C16_PlaceholderInOutput ==
  pc = "stripped" =>
    Occurrences(callOut, <<"[", "spoiler", "sp", "removed", "]">>)
      >= Cardinality(OutermostSpoilerSpans(callArg))

(***************************************************************************)
(* C17: no text that lies inside a spoiler-marked span, from its opening   *)
(* tag to the matching closing tag, spans nested in it included, appears   *)
(* in the output of normalizeDescription: a letter that the input holds    *)
(* only inside spoiler-marked spans is not in the output.                  *)
(***************************************************************************)
C17_SpoilerTextRemoved ==
  pc = "normalized" =>
    \A t \in {"x", "y", "z"} :
      LET at == {i \in 1..Len(callArg) : callArg[i] = t}
      IN  (at # {} /\ at \subseteq InsideSpoiler(callArg))
            => \A i \in 1..Len(callOut) : callOut[i] # t

(***************************************************************************)
(* C18: calls of bestSplitWithJmnedict and of makeAliases leave the        *)
(* lexicon index unchanged: once the index exists it stays, through any    *)
(* number of calls in any order, the pair of sets that loadJmnedictSets    *)
(* built, and the result of each segmentation is the one its argument and  *)
(* those two sets determine.                                               *)
(***************************************************************************)
C18_IndexIsWhatWasConstructed ==
  jm # <<>> => jm = <<[surnames |-> surnames, givennames |-> givennames]>>

C18_CallsKeepIndex ==
  jm # <<>> =>
    jm' = jm /\ surnames' = surnames /\ givennames' = givennames

C18_ResultFromArguments ==
  (AfterSplitStep /\ splitCalls = 1) =>
    LET s == Stripped(segName)
        built == [surnames |-> surnames, givennames |-> givennames]
        cuts == IF Len(s) >= 2 /\ Len(s) <= 8 THEN KeepableCuts(s, built)
                ELSE {}
    IN  /\ cuts = {} <=> segOut.result = <<>>
        /\ cuts # {} =>
             \E c \in cuts :
               /\ segOut.result[1] = [surname |-> SubSeq(s, 1, c),
                                      given |-> SubSeq(s, c + 1, Len(s))]
               /\ \A d \in cuts :
                    \/ CutScore(c, Len(s)) > CutScore(d, Len(s))
                    \/ CutScore(c, Len(s)) = CutScore(d, Len(s)) /\ c <= d

C18_LexiconImmutable ==
  /\ [](C18_IndexIsWhatWasConstructed /\ C18_ResultFromArguments)
  /\ [][C18_CallsKeepIndex]_vars

C18_Witness ==
  /\ pc = "return"
  /\ splitCalls = 1
  /\ nameNative = <<"k1", "k2", "k2">>
  /\ segOut.result = <<[surname |-> <<"k1", "k2">>, given |-> <<"k2">>]>>
  /\ jm = <<[surnames |-> {<<"k1", "k2">>}, givennames |-> {<<"k2">>}]>>

(***************************************************************************)
(* C19: every call of gql ends after at most 14 requests (12 in the oldest *)
(* revision).  A response that is HTTP 429, or whose error message is      *)
(* about rate limiting, is followed by a wait and then by the next         *)
(* attempt; a response with any other error raises that error at once,     *)
(* with no further request; a response without errors returns its data at  *)
(* once; and when the last allowed attempt was rate-limited the call       *)
(* raises "Too many rate-limit retries" and sends no further request.      *)
(***************************************************************************)
InGql == pc \in {"loop", "sleeping", "returned", "raised"}

RateLimited(r) ==
  \/ r.status = 429
  \/ r.errors # <<>>
       /\ r.errors[1] \in {"Too Many Requests", "rate limit exceeded"}

C19_RequestsBounded ==
  InGql =>
    /\ callArg \in {12, 14}
    /\ requests <= callArg
    /\ pc = "sleeping" =>
         response # <<>> /\ RateLimited(response[1]) /\ waitMs > 0
    /\ pc = "returned" =>
         /\ response # <<>> /\ ~RateLimited(response[1])
         /\ response[1].errors = <<>>
         /\ callOut = <<"data">>
    /\ (pc = "raised" /\ callOut = <<"Too many rate-limit retries">>) =>
         /\ requests = callArg
         /\ response # <<>> /\ RateLimited(response[1])

C19_EachResponseHandled ==
  /\ requests' > requests =>
       /\ requests' = requests + 1
       /\ response' # <<>> =>
            IF RateLimited(response'[1])
            THEN pc' = "sleeping"
            ELSE IF response'[1].errors # <<>>
            THEN pc' = "raised" /\ callOut' = response'[1].errors
            ELSE pc' = "returned"
       /\ response' = <<>> => pc' = "raised"
  /\ pc = "sleeping" =>
       pc' = "loop" /\ attempt' = attempt + 1 /\ requests' = requests
  /\ pc \in {"returned", "raised"} => pc' = "idle" /\ requests' = 0
  /\ (pc = "loop" /\ attempt > callArg) =>
       /\ pc' = "raised"
       /\ callOut' = <<"Too many rate-limit retries">>
       /\ requests' = requests

C19_GqlEndsWithinLimit ==
  /\ []C19_RequestsBounded
  /\ [][C19_EachResponseHandled]_vars
  /\ (pc = "loop") ~> (pc \in {"returned", "raised"})

C19_Witness ==
  /\ pc = "raised"
  /\ callArg = 14
  /\ requests = 14
  /\ attempt = 15
  /\ callOut = <<"Too many rate-limit retries">>

(***************************************************************************)
(* The characters main has seen, as the properties read them.              *)
(***************************************************************************)
\* the occurrences of characters so far: <<index of the title, position>>
CharOccurrences ==
  UNION {{<<j, k>> : k \in 1..Len(fetched[j])} : j \in 1..Len(fetched)}

CharacterAt(o) == fetched[o[1]][o[2]]

IdsSeen == {CharacterAt(o).id : o \in CharOccurrences}

\* the first occurrence of the character with the given id
FirstOccurrenceOf(id) ==
  CHOOSE o \in CharOccurrences :
    /\ CharacterAt(o).id = id
    /\ \A p \in CharOccurrences :
         CharacterAt(p).id = id =>
           (o[1] < p[1] \/ (o[1] = p[1] /\ o[2] <= p[2]))

\* the titles, of those processed, whose character list holds the id
TitlesHolding(id) ==
  {titles[j].title :
     j \in {i \in 1..Len(fetched) :
              \E k \in 1..Len(fetched[i]) : fetched[i][k].id = id}}

\* the key of an id: its decimal digits
KeyOfId(id) == <<"1", "2", "3", "4", "5", "6", "7", "8", "9">>[id]

FillingCharMap == pc \in {"titles", "mapped"}

\* charMap holds one entry per id seen, with the data of the first
\* occurrence, the description being Stored(first occurrence)
CharMapMatches(Stored(_)) ==
  /\ DOMAIN charMap = {KeyOfId(id) : id \in IdsSeen}
  /\ Cardinality(DOMAIN charMap) = Cardinality(IdsSeen)
  /\ \A id \in IdsSeen :
       LET e == charMap[KeyOfId(id)]
           c == CharacterAt(FirstOccurrenceOf(id))
       IN  /\ e.id = KeyOfId(id)
           /\ e.nameNative = c.nameNative
           /\ e.nameFull = c.nameFull
           /\ e.imageUrl = c.imageUrl
           /\ e.descriptionHtml = Stored(c)
           /\ e.fromSet = TitlesHolding(id)

\* a step of the loop leaves every entry as it is, but for a larger fromSet
EntriesKept ==
  (FillingCharMap /\ pc' # "idle") =>
    \A k \in DOMAIN charMap :
      /\ k \in DOMAIN charMap'
      /\ charMap'[k].nameNative = charMap[k].nameNative
      /\ charMap'[k].nameFull = charMap[k].nameFull
      /\ charMap'[k].imageUrl = charMap[k].imageUrl
      /\ charMap'[k].descriptionHtml = charMap[k].descriptionHtml
      /\ charMap[k].fromSet \subseteq charMap'[k].fromSet

(***************************************************************************)
(* C20 (as stated): after any sequence of titles, charMap holds exactly    *)
(* one entry per distinct character id seen so far; its names, image URL   *)
(* and description are those of the character's first occurrence; its      *)
(* fromSet is the set of the titles processed so far whose character list  *)
(* held that id.                                                           *)
(***************************************************************************)
C20_EntryIsFirstOccurrence ==
  FillingCharMap => CharMapMatches(LAMBDA c : c.descriptionHtml)

(***************************************************************************)
(* C20 (amended): the same, the description of the entry being what main   *)
(* keeps of the description of the first occurrence: the result of         *)
(* stripSpoilers on it, or the empty string when INCLUDE_DESC is off; and  *)
(* no later occurrence overwrites an entry.                                *)
(***************************************************************************)
C20_EntryFromFirstOccurrence ==
  FillingCharMap =>
    CharMapMatches(LAMBDA c : IF includeDesc
                              THEN StripSpoilers(c.descriptionHtml)
                              ELSE <<>>)

C20_CharMapFirstWins ==
  []C20_EntryFromFirstOccurrence /\ [][EntriesKept]_vars

C20_Witness ==
  /\ pc = "mapped"
  /\ Len(fetched) = 2
  /\ titles[1].title = titles[2].title
  /\ DOMAIN charMap = {"1", "2"}
  /\ charMap["1"].nameFull = <<"a">>
  /\ charMap["1"].fromSet = {"Frieren"}
  /\ \E k \in 1..Len(fetched[2]) :
       fetched[2][k].id = 1 /\ fetched[2][k].nameFull = <<"A", "a">>

(***************************************************************************)
(* fetchCurrentTitles: what a response holds, position by position.        *)
(***************************************************************************)
\* the lists of a response, none when a level of it is missing
ListsHeld(data) ==
  IF data = <<>> THEN <<>>
  ELSE IF data[1].MediaListCollection = <<>> THEN <<>>
  ELSE IF data[1].MediaListCollection[1].lists = <<>> THEN <<>>
  ELSE data[1].MediaListCollection[1].lists[1]

\* the positions <<list, index>> of the entries of a response
EntryPositions(data) ==
  UNION {IF ListsHeld(data)[l].entries = <<>> THEN {}
         ELSE {<<l, k>> : k \in 1..Len(ListsHeld(data)[l].entries[1])} :
         l \in 1..Len(ListsHeld(data))}

EntryAtPosition(data, p) == ListsHeld(data)[p[1]].entries[1][p[2]]

\* p comes before q in the response
ComesBefore(p, q) == p[1] < q[1] \/ (p[1] = q[1] /\ p[2] < q[2])

\* the entry at p has status CURRENT and a media id, which is id
CurrentWithId(data, p, id) ==
  LET e == EntryAtPosition(data, p)
  IN  /\ e # <<>>
      /\ e[1].status = "CURRENT"
      /\ e[1].media # <<>>
      /\ e[1].media[1].id # 0
      /\ e[1].media[1].id = id

\* the first position of the response where a CURRENT entry has media id id
FirstCurrentPosition(data, id) ==
  CHOOSE p \in EntryPositions(data) :
    /\ CurrentWithId(data, p, id)
    /\ \A q \in EntryPositions(data) :
         CurrentWithId(data, q, id) => ~ComesBefore(q, p)

\* the calls of fetchCurrentTitles that have returned: response, maxTitles
\* and result of each
TitleCalls ==
  IF pc = "returned"
  THEN {[data |-> callArg.data, maxTitles |-> callArg.maxTitles,
         out |-> callOut]}
  ELSE IF pc \in {"fetched", "titles"}
            \/ (pc = "failed" /\ error = "No CURRENT entries found")
  THEN {[data |-> callArg.anime, maxTitles |-> callArg.maxTitles,
         out |-> callOut.anime],
        [data |-> callArg.manga, maxTitles |-> callArg.maxTitles,
         out |-> callOut.manga]}
  ELSE {}

\* main has built its title list
TitlesBuilt ==
  pc = "titles" \/ (pc = "failed" /\ error = "No CURRENT entries found")

\* every returned entry is a CURRENT entry of the response with a media id
C21_OnlyCurrentWithId ==
  \A c \in TitleCalls : c.maxTitles >= 0 =>
    \A k \in 1..Len(c.out) :
      \E p \in EntryPositions(c.data) : CurrentWithId(c.data, p, c.out[k].id)

\* the returned media ids are pairwise distinct and in the order of their
\* first occurrences in the response
C21_DistinctInFirstOrder ==
  \A c \in TitleCalls : c.maxTitles >= 0 =>
    \A i, j \in 1..Len(c.out) : i < j =>
      /\ c.out[i].id # c.out[j].id
      /\ ComesBefore(FirstCurrentPosition(c.data, c.out[i].id),
                     FirstCurrentPosition(c.data, c.out[j].id))

\* fetchCurrentTitles returns at most maxTitles entries
C21_AtMostMaxTitles ==
  \A c \in TitleCalls : c.maxTitles >= 0 => Len(c.out) <= c.maxTitles

\* fetchCurrentTitles returns at most maxTitles entries when maxTitles is
\* at least 1, and at most one entry when it is 0
C21_AtMostMaxTitlesOrOne ==
  \A c \in TitleCalls : c.maxTitles >= 0 =>
    Len(c.out) <= (IF c.maxTitles = 0 THEN 1 ELSE c.maxTitles)

\* the title list of main has at most MAX_TITLES entries
C21_CombinedAtMostMaxTitles ==
  TitlesBuilt /\ callArg.maxTitles >= 0 => Len(titles) <= callArg.maxTitles

\* C21: for every response and every maxTitles >= 0, fetchCurrentTitles
\* returns only entries whose status is CURRENT and whose media id is
\* present, with pairwise distinct media ids in first-occurrence order, and
\* never more than maxTitles entries; the title list main builds from the
\* anime and manga results never exceeds MAX_TITLES either.
C21_TitlesCurrentDistinctCapped ==
  /\ C21_OnlyCurrentWithId
  /\ C21_DistinctInFirstOrder
  /\ C21_AtMostMaxTitles
  /\ C21_CombinedAtMostMaxTitles

\* a call with maxTitles 2 on a response holding a repeated media id and
\* three distinct ones has returned the first two
C21_Witness ==
  /\ pc = "returned"
  /\ callArg.maxTitles = 2
  /\ Len(callOut) = 2
  /\ \E p, q \in EntryPositions(callArg.data) :
       /\ p # q
       /\ CurrentWithId(callArg.data, p, callOut[1].id)
       /\ CurrentWithId(callArg.data, q, callOut[1].id)
  /\ \E p \in EntryPositions(callArg.data), id \in 1..9 :
       /\ CurrentWithId(callArg.data, p, id)
       /\ id \notin {callOut[1].id, callOut[2].id}

====
